---- MODULE Spec2Model ----
(***************************************************************************)
(* A model of the double-buffered differential renderer of `yellow`:       *)
(* the cell grid, the per-line dirty regions, the line hash, the line      *)
(* diff, the scroll detector and Screen::refresh, together with a terminal *)
(* that applies the bytes refresh writes.                                  *)
(*                                                                         *)
(* u64 values are kept as 8 little-endian bytes (TLC integers are 32 bit), *)
(* strings of the wire protocol as sequences of tokens, one per escape     *)
(* sequence or character.                                                  *)
(***************************************************************************)
EXTENDS Integers, Sequences, FiniteSets

VARIABLES
    screen,      \* the Screen struct (src/src/screen.rs:14-44)
    term,        \* the terminal the bytes are written to
    last,        \* what the last Screen call did (its return value, the bytes it wrote)
    hist,        \* the frame in progress since the last drawing operation
    ops,         \* number of Screen calls made so far
    old_line,    \* find_line_diff argument
    new_line,    \* find_line_diff / hash_line argument
    diff_result, \* value returned by find_line_diff
    hash_result, \* value returned by hash_line
    args,        \* arguments of a function or method called on its own
    ret,         \* what that call returned or left behind
    update_buffer, \* Backend's UPDATE_BUFFER (src/src/backend.rs:7)
    backend,     \* Backend's BACKEND (src/src/backend.rs:6)
    tty,         \* the terminal device behind stdin and stdout, as Backend drives it
    panel_stack, \* Panel's PANEL_STACK (src/src/panel.rs:9)
    panels,      \* the Panel values the program holds
    window       \* a Window struct (src/src/window.rs:9-27)

vars == <<screen, term, last, hist, ops, old_line, new_line, diff_result, hash_result,
          args, ret, update_buffer, backend, tty, panel_stack, panels, window>>

\* the variables of Backend, Panel and Window
object_vars == <<backend, tty, panel_stack, panels, window>>

(***************************************************************************)
(* Bounds of the model                                                     *)
(***************************************************************************)
Rows == 4
Cols == 2
MaxOps == 3

\* the calls made on Backend, on panels and on a Window in a run
MaxCalls == 5
MaxLineLen == 2

(***************************************************************************)
(* Attr (attr.rs), Color (color.rs), Cell (cell.rs)                        *)
(***************************************************************************)
AttrBit == [BOLD |-> 0, DIM |-> 1, ITALIC |-> 2, UNDERLINE |-> 3,
            BLINK |-> 4, REVERSE |-> 5, HIDDEN |-> 6, STRIKETHROUGH |-> 7]

AttrNames == DOMAIN AttrBit

NORMAL == {}

RECURSIVE Pow2(_)
Pow2(n) == IF n = 0 THEN 1 ELSE 2 * Pow2(n - 1)

RECURSIVE SumBits(_)
SumBits(s) ==
    IF s = {} THEN 0
    ELSE LET a == CHOOSE x \in s : TRUE
         IN Pow2(AttrBit[a]) + SumBits(s \ {a})

\* Attr::bits: the u16 behind an attribute set
bits(attr) == SumBits(attr)

Reset == <<"Reset">>
Red == <<"Red">>
Blue == <<"Blue">>
Ansi256(c) == <<"Ansi256", c>>
Rgb(r, g, b) == <<"Rgb", r, g, b>>

with_style(ch, attr, fg, bg) == [ch |-> ch, attr |-> attr, fg |-> fg, bg |-> bg]

new(ch) == with_style(ch, NORMAL, Reset, Reset)

blank == new(" ")

is_blank(cell) ==
    /\ cell.ch = " "
    /\ cell.attr = NORMAL
    /\ cell.fg = Reset
    /\ cell.bg = Reset

\* `cell.ch as u32`: the code point of the characters the model prints
CodePoint(ch) ==
    CASE ch = " " -> 32
      [] ch = "X" -> 88
      [] ch = "a" -> 97
      [] ch = "b" -> 98
      [] ch = "c" -> 99
      [] ch = "é" -> 233

\* char::len_utf8 of the characters the model prints
len_utf8(ch) == IF CodePoint(ch) < 128 THEN 1 ELSE 2

\* str::len: the length of the text in bytes
RECURSIVE str_len(_)
str_len(text) == IF text = <<>> THEN 0 ELSE len_utf8(Head(text)) + str_len(Tail(text))

(***************************************************************************)
(* u64 arithmetic on 8 little-endian bytes                                 *)
(***************************************************************************)
U64(n) == <<n % 256, (n \div 256) % 256, (n \div 65536) % 256, 0, 0, 0, 0, 0>>

Zero64 == U64(0)

\* bit k of a byte
Bit(a, k) == (a \div <<1, 2, 4, 8, 16, 32, 64, 128>>[k + 1]) % 2

XorBit(a, b, k) == ((Bit(a, k) + Bit(b, k)) % 2) * <<1, 2, 4, 8, 16, 32, 64, 128>>[k + 1]

\* a ^ b on two bytes
XorBits(a, b) ==
    XorBit(a, b, 0) + XorBit(a, b, 1) + XorBit(a, b, 2) + XorBit(a, b, 3)
    + XorBit(a, b, 4) + XorBit(a, b, 5) + XorBit(a, b, 6) + XorBit(a, b, 7)

\* hash ^= byte as u64
Xor64(h, byte) == [h EXCEPT ![1] = XorBits(h[1], byte)]

\* FNV_PRIME = 0x100000001b3 = 2^40 + 0x1b3
FNV_PRIME_LOW == 435
FNV_PRIME_SHIFT_BYTES == 5

\* FNV_OFFSET_BASIS = 0xcbf29ce484222325
FNV_OFFSET_BASIS == <<37, 35, 34, 132, 228, 156, 242, 203>>

\* column i of h * FNV_PRIME: h[i] * 0x1b3, plus byte i of h << 40, plus the carry
MulColumn(h, i, carry) ==
    (h[i] * FNV_PRIME_LOW)
    + (IF i > FNV_PRIME_SHIFT_BYTES THEN h[i - FNV_PRIME_SHIFT_BYTES] ELSE 0)
    + (carry \div 256)

\* hash.wrapping_mul(FNV_PRIME): the carry out of byte 8 is dropped
wrapping_mul_prime(h) ==
    LET v1 == MulColumn(h, 1, 0)
        v2 == MulColumn(h, 2, v1)
        v3 == MulColumn(h, 3, v2)
        v4 == MulColumn(h, 4, v3)
        v5 == MulColumn(h, 5, v4)
        v6 == MulColumn(h, 6, v5)
        v7 == MulColumn(h, 7, v6)
        v8 == MulColumn(h, 8, v7)
    IN <<v1 % 256, v2 % 256, v3 % 256, v4 % 256, v5 % 256, v6 % 256, v7 % 256, v8 % 256>>

\* one round of the loop bodies `hash ^= byte; hash = hash.wrapping_mul(FNV_PRIME)`
FnvStep(h, byte) == wrapping_mul_prime(Xor64(h, byte))

\* the rounds for a run of bytes, in order
RECURSIVE FnvBytes(_, _)
FnvBytes(h, bytes) ==
    IF bytes = <<>> THEN h ELSE FnvBytes(FnvStep(h, Head(bytes)), Tail(bytes))

\* to_ne_bytes on a little-endian target
ne_bytes_u32(v) ==
    <<v % 256, (v \div 256) % 256, (v \div 65536) % 256, (v \div 16777216) % 256>>

ne_bytes_u16(v) == <<v % 256, (v \div 256) % 256>>

(***************************************************************************)
(* delta.rs                                                                *)
(***************************************************************************)
ColorTag ==
    [None |-> 0, Black |-> 1, Red |-> 2, Green |-> 3, Yellow |-> 4, Blue |-> 5,
     Magenta |-> 6, Cyan |-> 7, White |-> 8, BrightBlack |-> 9, BrightRed |-> 10,
     BrightGreen |-> 11, BrightYellow |-> 12, BrightBlue |-> 13,
     BrightMagenta |-> 14, BrightCyan |-> 15, BrightWhite |-> 16,
     Ansi256 |-> 17, Rgb |-> 18, Reset |-> 19]

\* the bytes hash_color feeds to the hash: the discriminant, then the payload
hash_color(h, color) ==
    FnvBytes(h, <<ColorTag[color[1]]>> \o Tail(color))

hash_cell(h, cell) ==
    LET h1 == FnvBytes(h, ne_bytes_u32(CodePoint(cell.ch)))
        h2 == FnvBytes(h1, ne_bytes_u16(bits(cell.attr)))
        h3 == hash_color(h2, cell.fg)
    IN hash_color(h3, cell.bg)

RECURSIVE hash_cells(_, _)
\* the `for cell in cells` loop, the cells in order: the first half of them,
\* then the rest from the hash the first half gave; every intermediate hash
\* is a u64 of 8 bytes
hash_cells(h, cells) ==
    IF cells = <<>> THEN h
    ELSE IF Len(cells) = 1 THEN hash_cell(h, cells[1])
    ELSE LET half == hash_cells(h, SubSeq(cells, 1, Len(cells) \div 2))
         IN IF Len(half) = 8
            THEN hash_cells(half, SubSeq(cells, (Len(cells) \div 2) + 1, Len(cells)))
            ELSE half

hash_line(cells) ==
    IF cells = <<>> THEN Zero64 ELSE hash_cells(FNV_OFFSET_BASIS, cells)

None == <<"None">>
Some(v) == <<"Some", v>>

\* a terminal device in the state a shell leaves it in
Tty(isatty) == [isatty |-> isatty, raw |-> FALSE, alternate |-> FALSE, cursor |-> TRUE]

\* the program has made no call on Backend, has no Panel and no Window
NoObjects ==
    /\ backend = None
    /\ tty = Tty(TRUE)
    /\ panel_stack = None
    /\ panels = <<>>
    /\ window = None

\* the loop `while first_diff < len && old[first_diff] == new[first_diff]`;
\* sixteen iterations are taken at once where the condition holds for all of
\* them, which keeps the evaluation of a long row shallow
RECURSIVE ScanForward(_, _, _)
ScanForward(old, new_, first_diff) ==
    IF /\ first_diff + 16 <= Len(old)
       /\ SubSeq(old, first_diff + 1, first_diff + 16)
            = SubSeq(new_, first_diff + 1, first_diff + 16)
    THEN ScanForward(old, new_, first_diff + 16)
    ELSE IF first_diff < Len(old) /\ old[first_diff + 1] = new_[first_diff + 1]
    THEN ScanForward(old, new_, first_diff + 1)
    ELSE first_diff

\* the backward scan left out: last_diff stays at the end of the row
ScanBackwardSkipped(old, new_, first_diff, last_diff) == last_diff

\* the loop `while last_diff > first_diff && old[last_diff] == new[last_diff]`,
\* sixteen iterations at once where the condition holds for all of them
RECURSIVE ScanBackward(_, _, _, _)
ScanBackward(old, new_, first_diff, last_diff) ==
    IF /\ last_diff - 15 > first_diff
       /\ SubSeq(old, last_diff - 14, last_diff + 1)
            = SubSeq(new_, last_diff - 14, last_diff + 1)
    THEN ScanBackward(old, new_, first_diff, last_diff - 16)
    ELSE IF last_diff > first_diff /\ old[last_diff + 1] = new_[last_diff + 1]
    THEN ScanBackward(old, new_, first_diff, last_diff - 1)
    ELSE last_diff

saturating_sub(a, b) == IF a >= b THEN a - b ELSE 0

\* Option<(usize, usize)>, indices 0-based as in the source
find_line_diff(old, new_) ==
    LET len == Len(old)
    IN IF len # Len(new_) THEN Some(<<0, saturating_sub(Len(new_), 1)>>)
       ELSE IF len = 0 THEN None
       ELSE IF old = new_ THEN None
       ELSE LET first_diff == ScanForward(old, new_, 0)
            IN IF first_diff = len THEN None
               ELSE Some(<<first_diff, ScanBackward(old, new_, first_diff, len - 1)>>)

\* DirtyRegion: two Option<u16> fields
clean == [first_changed |-> None, last_changed |-> None]

full(width) == [first_changed |-> Some(0), last_changed |-> Some(saturating_sub(width, 1))]

Min(a, b) == IF a <= b THEN a ELSE b
Max(a, b) == IF a >= b THEN a ELSE b

\* mark that replaces the region instead of expanding it
mark_replacing(region, start, end) ==
    [first_changed |-> Some(start), last_changed |-> Some(end)]

mark(region, start, end) ==
    IF region.first_changed = None /\ region.last_changed = None
    THEN [first_changed |-> Some(start), last_changed |-> Some(end)]
    ELSE [first_changed |-> Some(Min(region.first_changed[2], start)),
          last_changed |-> Some(Max(region.last_changed[2], end))]

is_dirty(region) == region.first_changed # None

range(region) ==
    IF region.first_changed # None /\ region.last_changed # None
    THEN Some(<<region.first_changed[2], region.last_changed[2]>>)
    ELSE None

\* v[i] for a 0-based index into a Vec / slice
At(v, i) == v[i + 1]

\* Step 1 of detect_scrolls: the old index of a hash that occurs once in each vector
UniqueMatch(old_hashes, new_hashes, new_i) ==
    LET hash == At(new_hashes, new_i)
        new_count == Cardinality({i \in 1..Len(new_hashes) : new_hashes[i] = hash})
        old_matches == {i \in 0..(Len(old_hashes) - 1) : At(old_hashes, i) = hash}
    IN IF hash = Zero64 THEN None
       ELSE IF new_count # 1 THEN None
       ELSE IF Cardinality(old_matches) = 1
            THEN Some(CHOOSE i \in old_matches : TRUE)
            ELSE None

\* ExtendForward without the comparison of the two hashes
RECURSIVE ExtendForwardUncompared(_, _, _, _, _, _)
ExtendForwardUncompared(old_num, old_hashes, new_hashes, new_i, old_i, offset) ==
    IF /\ new_i + offset < Len(new_hashes)
       /\ old_i + offset < Len(old_hashes)
       /\ old_num[new_i + offset] = None
       /\ At(new_hashes, new_i + offset) # Zero64
    THEN ExtendForwardUncompared([old_num EXCEPT ![new_i + offset] = Some(old_i + offset)],
                                 old_hashes, new_hashes, new_i, old_i, offset + 1)
    ELSE old_num

RECURSIVE ExtendForward(_, _, _, _, _, _)
ExtendForward(old_num, old_hashes, new_hashes, new_i, old_i, offset) ==
    IF /\ new_i + offset < Len(new_hashes)
       /\ old_i + offset < Len(old_hashes)
       /\ old_num[new_i + offset] = None
       /\ At(new_hashes, new_i + offset) = At(old_hashes, old_i + offset)
       /\ At(new_hashes, new_i + offset) # Zero64
    THEN ExtendForward([old_num EXCEPT ![new_i + offset] = Some(old_i + offset)],
                       old_hashes, new_hashes, new_i, old_i, offset + 1)
    ELSE old_num

RECURSIVE ExtendBackward(_, _, _, _, _, _)
ExtendBackward(old_num, old_hashes, new_hashes, new_i, old_i, offset) ==
    IF /\ new_i >= offset
       /\ old_i >= offset
       /\ old_num[new_i - offset] = None
       /\ At(new_hashes, new_i - offset) = At(old_hashes, old_i - offset)
       /\ At(new_hashes, new_i - offset) # Zero64
    THEN ExtendBackward([old_num EXCEPT ![new_i - offset] = Some(old_i - offset)],
                        old_hashes, new_hashes, new_i, old_i, offset + 1)
    ELSE old_num

\* Step 2 of detect_scrolls: the loop over new_i, growing each match both ways
RECURSIVE GrowMatches(_, _, _, _)
GrowMatches(old_num, old_hashes, new_hashes, new_i) ==
    IF new_i >= Len(new_hashes) THEN old_num
    ELSE IF old_num[new_i] = None
         THEN GrowMatches(old_num, old_hashes, new_hashes, new_i + 1)
         ELSE LET old_i == old_num[new_i][2]
                  fwd == ExtendForward(old_num, old_hashes, new_hashes, new_i, old_i, 1)
                  bwd == ExtendBackward(fwd, old_hashes, new_hashes, new_i, old_i, 1)
              IN GrowMatches(bwd, old_hashes, new_hashes, new_i + 1)

\* RegionEnd without the comparison of the shifts
RECURSIVE RegionEndAnyShift(_, _, _, _)
RegionEndAnyShift(old_num, new_len, shift, end) ==
    IF /\ end + 1 < new_len
       /\ old_num[end + 1] # None
    THEN RegionEndAnyShift(old_num, new_len, shift, end + 1)
    ELSE end

RECURSIVE RegionEnd(_, _, _, _)
RegionEnd(old_num, new_len, shift, end) ==
    IF /\ end + 1 < new_len
       /\ old_num[end + 1] # None
       /\ old_num[end + 1][2] - (end + 1) = shift
    THEN RegionEnd(old_num, new_len, shift, end + 1)
    ELSE end

Abs(n) == IF n < 0 THEN 0 - n ELSE n

\* FindHunks without the efficiency heuristic
RECURSIVE FindHunksAnyShift(_, _, _)
FindHunksAnyShift(old_num, new_len, i) ==
    IF i >= new_len THEN <<>>
    ELSE IF old_num[i] = None THEN FindHunksAnyShift(old_num, new_len, i + 1)
    ELSE LET shift == old_num[i][2] - i
             end == RegionEnd(old_num, new_len, shift, i)
             size == end - i + 1
             hunk == IF size >= 3
                     THEN <<[start |-> i, size |-> size, shift |-> shift]>>
                     ELSE <<>>
         IN hunk \o FindHunksAnyShift(old_num, new_len, end + 1)

\* FindHunks going on at the line after i, not at the line after the region
RECURSIVE FindHunksStepping(_, _, _)
FindHunksStepping(old_num, new_len, i) ==
    IF i >= new_len THEN <<>>
    ELSE IF old_num[i] = None THEN FindHunksStepping(old_num, new_len, i + 1)
    ELSE LET shift == old_num[i][2] - i
             start == i
             end == RegionEnd(old_num, new_len, shift, i)
             size == end - start + 1
             min_efficiency == size + Min(size \div 8, 2)
             shift_abs == Abs(shift)
             hunk == IF size >= 3 /\ min_efficiency >= shift_abs
                     THEN <<[start |-> start, size |-> size, shift |-> shift]>>
                     ELSE <<>>
         IN hunk \o FindHunksStepping(old_num, new_len, i + 1)

\* Step 3 of detect_scrolls: contiguous regions with the same shift, filtered
RECURSIVE FindHunks(_, _, _)
FindHunks(old_num, new_len, i) ==
    IF i >= new_len THEN <<>>
    ELSE IF old_num[i] = None THEN FindHunks(old_num, new_len, i + 1)
    ELSE LET shift == old_num[i][2] - i
             start == i
             end == RegionEnd(old_num, new_len, shift, i)
             size == end - start + 1
             min_efficiency == size + Min(size \div 8, 2)
             shift_abs == Abs(shift)
             hunk == IF size >= 3 /\ min_efficiency >= shift_abs
                     THEN <<[start |-> start, size |-> size, shift |-> shift]>>
                     ELSE <<>>
         IN hunk \o FindHunks(old_num, new_len, end + 1)

detect_scrolls(old_hashes, new_hashes) ==
    LET old_len == Len(old_hashes)
        new_len == Len(new_hashes)
    IN IF old_len = 0 \/ new_len = 0 THEN <<>>
       ELSE LET unique == [new_i \in 0..(new_len - 1) |->
                             UniqueMatch(old_hashes, new_hashes, new_i)]
                old_num == GrowMatches(unique, old_hashes, new_hashes, 0)
            IN FindHunks(old_num, new_len, 0)

(***************************************************************************)
(* The wire output: one token per escape sequence or character             *)
(***************************************************************************)
CUP(row, col) == [t |-> "CUP", row |-> row, col |-> col]   \* ESC [ row ; col H
CUF(n) == [t |-> "CUF", n |-> n]                           \* ESC [ n C
CUB(n) == [t |-> "CUB", n |-> n]                           \* ESC [ n D
CUD(n) == [t |-> "CUD", n |-> n]                           \* ESC [ n B
CUU(n) == [t |-> "CUU", n |-> n]                           \* ESC [ n A
SGR(params) == [t |-> "SGR", params |-> params]            \* ESC [ p ; ... m
ECH(n) == [t |-> "ECH", n |-> n]                           \* ESC [ n X
IL(n) == [t |-> "IL", n |-> n]                             \* ESC [ n L
DL(n) == [t |-> "DL", n |-> n]                             \* ESC [ n M
CH(ch) == [t |-> "CH", ch |-> ch]                          \* the character, UTF-8
DECTCEM(on) == [t |-> "DECTCEM", on |-> on]                \* ESC [ ? 25 h / l

\* kitty.rs: the keyboard protocol sequences ESC [ > flags u, ESC [ < u,
\* ESC [ > flags ; 1 u and ESC [ < 1 u
enable_sequence(flags) == [t |-> "KITTY", intro |-> ">", params |-> <<flags>>]
disable_sequence == [t |-> "KITTY", intro |-> "<", params |-> <<>>]
push_sequence(flags) == [t |-> "KITTY", intro |-> ">", params |-> <<flags, 1>>]
pop_sequence == [t |-> "KITTY", intro |-> "<", params |-> <<1>>]

(***************************************************************************)
(* screen.rs: Screen                                                       *)
(***************************************************************************)
BlankGrid(rows, cols) == [y \in 1..rows |-> [x \in 1..cols |-> blank]]

\* Screen::init on a terminal whose size is rows x cols
init(rows, cols) ==
    [cursor_x |-> 0,
     cursor_y |-> 0,
     rows |-> rows,
     cols |-> cols,
     current_attr |-> NORMAL,
     current_fg |-> Reset,
     current_bg |-> Reset,
     color_pairs |-> <<>>,
     cursor_visible |-> FALSE,
     buffer |-> <<>>,
     last_emitted_attr |-> NORMAL,
     last_emitted_fg |-> Reset,
     last_emitted_bg |-> Reset,
     current_content |-> BlankGrid(rows, cols),
     pending_content |-> BlankGrid(rows, cols),
     dirty_lines |-> [y \in 1..rows |-> clean],
     current_line_hashes |-> [y \in 1..rows |-> Zero64],
     pending_line_hashes |-> [y \in 1..rows |-> Zero64],
     check_interval |-> 5,
     fifo_hold |-> FALSE]

\* the largest u16: y, x, cursor_y and cursor_x are u16
U16_MAX == 65535

\* move_cursor reaches y + 1 or x + 1 with an operand of U16_MAX: the addition
\* panics where overflow checks are compiled in and wraps where they are not
move_cursor_overflows(s, y, x) ==
    /\ ~(Abs(y - s.cursor_y) = 0 /\ Abs(x - s.cursor_x) > 0 /\ Abs(x - s.cursor_x) < 4)
    /\ ~(Abs(x - s.cursor_x) = 0 /\ Abs(y - s.cursor_y) > 0 /\ Abs(y - s.cursor_y) < 4)
    /\ (y = U16_MAX \/ x = U16_MAX)

\* move_cursor that always writes the absolute form
move_cursor_absolute(s, y, x) ==
    [s EXCEPT !.buffer = Append(@, CUP(y + 1, x + 1)), !.cursor_y = y, !.cursor_x = x]

\* move_cursor; y + 1 and x + 1 as the build without overflow checks computes them
move_cursor(s, y, x) ==
    LET dy == Abs(y - s.cursor_y)
        dx == Abs(x - s.cursor_x)
        seq == IF dy = 0 /\ dx > 0 /\ dx < 4
               THEN (IF x > s.cursor_x THEN CUF(dx) ELSE CUB(dx))
               ELSE IF dx = 0 /\ dy > 0 /\ dy < 4
               THEN (IF y > s.cursor_y THEN CUD(dy) ELSE CUU(dy))
               ELSE CUP((y + 1) % (U16_MAX + 1), (x + 1) % (U16_MAX + 1))
    IN [s EXCEPT !.buffer = Append(@, seq), !.cursor_y = y, !.cursor_x = x]

print(s, text) ==
    IF s.cursor_y >= s.rows \/ s.cursor_x >= s.cols THEN s
    ELSE LET start_x == s.cursor_x
             y == s.cursor_y
             line == [x \in 0..(s.cols - 1) |->
                        IF x >= start_x /\ x - start_x < Len(text)
                        THEN with_style(At(text, x - start_x), s.current_attr,
                                        s.current_fg, s.current_bg)
                        ELSE At(At(s.pending_content, y), x)]
             end_x == saturating_sub(Min(start_x + str_len(text), s.cols), 1)
         IN [s EXCEPT
               !.pending_content[y + 1] = [x \in 1..s.cols |-> line[x - 1]],
               !.dirty_lines[y + 1] = mark(@, start_x, end_x),
               !.pending_line_hashes[y + 1] = Zero64,
               !.cursor_x = Min(s.cursor_x + str_len(text), s.cols)]

mvprint(s, y, x, text) == print(move_cursor(s, y, x), text)

\* addch that leaves the cached hash of the row in place
addch_keeping_hash(s, ch) ==
    IF s.cursor_y >= s.rows \/ s.cursor_x >= s.cols THEN s
    ELSE [s EXCEPT
            !.pending_content[s.cursor_y + 1][s.cursor_x + 1] =
                with_style(ch, s.current_attr, s.current_fg, s.current_bg),
            !.dirty_lines[s.cursor_y + 1] = mark(@, s.cursor_x, s.cursor_x),
            !.cursor_x = s.cursor_x + 1]

addch(s, ch) ==
    IF s.cursor_y >= s.rows \/ s.cursor_x >= s.cols THEN s
    ELSE LET y == s.cursor_y
             x == s.cursor_x
         IN [s EXCEPT
               !.pending_content[y + 1][x + 1] =
                   with_style(ch, s.current_attr, s.current_fg, s.current_bg),
               !.dirty_lines[y + 1] = mark(@, x, x),
               !.pending_line_hashes[y + 1] = Zero64,
               !.cursor_x = s.cursor_x + 1]

mvaddch(s, y, x, ch) == addch(move_cursor(s, y, x), ch)

\* clear that keeps the pending hashes
clear_keeping_hashes(s) ==
    [s EXCEPT
       !.pending_content = BlankGrid(s.rows, s.cols),
       !.dirty_lines = [y \in 1..s.rows |-> full(s.cols)],
       !.cursor_x = 0,
       !.cursor_y = 0]

clear(s) ==
    [s EXCEPT
       !.pending_content = BlankGrid(s.rows, s.cols),
       !.dirty_lines = [y \in 1..s.rows |-> full(s.cols)],
       !.pending_line_hashes = [y \in 1..s.rows |-> Zero64],
       !.cursor_x = 0,
       !.cursor_y = 0]

\* clrtoeol that marks the cursor column only
clrtoeol_marking_cursor(s) ==
    IF s.cursor_y >= s.rows THEN s
    ELSE [s EXCEPT
            !.pending_content[s.cursor_y + 1] =
                [x \in 1..s.cols |-> IF x - 1 >= s.cursor_x THEN blank ELSE @[x]],
            !.dirty_lines[s.cursor_y + 1] = mark(@, s.cursor_x, s.cursor_x),
            !.pending_line_hashes[s.cursor_y + 1] = Zero64]

clrtoeol(s) ==
    IF s.cursor_y >= s.rows THEN s
    ELSE LET y == s.cursor_y
             start_x == s.cursor_x
         IN [s EXCEPT
               !.pending_content[y + 1] =
                   [x \in 1..s.cols |-> IF x - 1 >= start_x THEN blank ELSE @[x]],
               !.dirty_lines[y + 1] = mark(@, start_x, s.cols - 1),
               !.pending_line_hashes[y + 1] = Zero64]

clrtobot(s) ==
    IF s.cursor_y >= s.rows THEN s
    ELSE LET s1 == clrtoeol(s)
         IN [s1 EXCEPT
               !.pending_content =
                   [y \in 1..s.rows |->
                      IF y - 1 >= s.cursor_y + 1 THEN [x \in 1..s.cols |-> blank] ELSE @[y]],
               !.dirty_lines =
                   [y \in 1..s.rows |-> IF y - 1 >= s.cursor_y + 1 THEN full(s.cols) ELSE @[y]],
               !.pending_line_hashes =
                   [y \in 1..s.rows |-> IF y - 1 >= s.cursor_y + 1 THEN Zero64 ELSE @[y]]]

\* Attr is a set of bits: | is union, & !attr is difference
attron(s, attr) == [s EXCEPT !.current_attr = @ \cup attr]

\* attroff with ^ for & !: the bits of attr that were not set become set
attroff_toggling(s, attr) == [s EXCEPT !.current_attr = (@ \ attr) \cup (attr \ @)]

attroff(s, attr) == [s EXCEPT !.current_attr = @ \ attr]

attrset(s, attr) == [s EXCEPT !.current_attr = attr]

\* init_pair that keeps the pair first registered under an id
init_pair_once(s, pair, fg, bg) ==
    [s EXCEPT !.color_pairs =
        [p \in (DOMAIN @) \cup {pair} |->
            IF p \in DOMAIN @ THEN @[p] ELSE [fg |-> fg, bg |-> bg]]]

\* color_pairs is a HashMap<u8, ColorPair>: insert replaces the entry of the key
init_pair(s, pair, fg, bg) ==
    [s EXCEPT !.color_pairs =
        [p \in (DOMAIN @) \cup {pair} |->
            IF p = pair THEN [fg |-> fg, bg |-> bg] ELSE @[p]]]

\* color_pair: the Screen it leaves and the Result it returns
color_pair(s, pair) ==
    IF pair \notin DOMAIN s.color_pairs
    THEN [screen |-> s, result |-> <<"Err", "InvalidColorPair", pair>>]
    ELSE [screen |-> [s EXCEPT !.current_fg = s.color_pairs[pair].fg,
                               !.current_bg = s.color_pairs[pair].bg],
          result |-> <<"Ok">>]

set_fg(s, color) == [s EXCEPT !.current_fg = color]

set_bg(s, color) == [s EXCEPT !.current_bg = color]

cursor_visible(s, visible) ==
    [s EXCEPT !.cursor_visible = visible, !.buffer = Append(@, DECTCEM(visible))]

enable_kitty_keyboard(s, flags) == [s EXCEPT !.buffer = Append(@, enable_sequence(flags))]

disable_kitty_keyboard(s) == [s EXCEPT !.buffer = Append(@, disable_sequence)]

push_kitty_keyboard(s, flags) == [s EXCEPT !.buffer = Append(@, push_sequence(flags))]

pop_kitty_keyboard(s) == [s EXCEPT !.buffer = Append(@, pop_sequence)]

\* wnoutrefresh: Backend::add_to_update_buffer(&self.buffer), then buffer.clear()
wnoutrefresh(s, ub) ==
    [screen |-> [s EXCEPT !.buffer = <<>>], update_buffer |-> ub \o s.buffer]

set_check_interval(s, lines) == [s EXCEPT !.check_interval = Max(lines, 1)]

hold_refresh(s) == [s EXCEPT !.fifo_hold = TRUE]

release_refresh(s) == [s EXCEPT !.fifo_hold = FALSE]

(***************************************************************************)
(* The style sequence refresh builds (screen.rs:513-585, color.rs:55-103)  *)
(***************************************************************************)
NamedIndex ==
    [Black |-> 0, Red |-> 1, Green |-> 2, Yellow |-> 3, Blue |-> 4, Magenta |-> 5,
     Cyan |-> 6, White |-> 7, BrightBlack |-> 8, BrightRed |-> 9, BrightGreen |-> 10,
     BrightYellow |-> 11, BrightBlue |-> 12, BrightMagenta |-> 13, BrightCyan |-> 14,
     BrightWhite |-> 15]

write_ansi_fg(color) ==
    CASE color[1] = "Rgb" -> <<38, 2>> \o Tail(color)
      [] color[1] = "Ansi256" -> <<38, 5>> \o Tail(color)
      [] color[1] = "Reset" -> <<39>>
      [] OTHER -> LET i == NamedIndex[color[1]]
                  IN IF i < 8 THEN <<30 + i>> ELSE <<90 + (i - 8)>>

write_ansi_bg(color) ==
    CASE color[1] = "Rgb" -> <<48, 2>> \o Tail(color)
      [] color[1] = "Ansi256" -> <<48, 5>> \o Tail(color)
      [] color[1] = "Reset" -> <<49>>
      [] OTHER -> LET i == NamedIndex[color[1]]
                  IN IF i < 8 THEN <<40 + i>> ELSE <<100 + (i - 8)>>

AttrOrder == <<"BOLD", "DIM", "ITALIC", "UNDERLINE", "BLINK", "REVERSE", "HIDDEN",
               "STRIKETHROUGH">>

AttrCode == [BOLD |-> 1, DIM |-> 2, ITALIC |-> 3, UNDERLINE |-> 4, BLINK |-> 5,
             REVERSE |-> 7, HIDDEN |-> 8, STRIKETHROUGH |-> 9]

RECURSIVE AttrCodes(_, _)
AttrCodes(attr, i) ==
    IF i > Len(AttrOrder) THEN <<>>
    ELSE (IF AttrOrder[i] \in attr THEN <<AttrCode[AttrOrder[i]]>> ELSE <<>>)
         \o AttrCodes(attr, i + 1)

\* the parameters between ESC [ and m
style_sequence(attr, fg, bg) ==
    (IF attr = NORMAL THEN <<0>> ELSE AttrCodes(attr, 1))
    \o write_ansi_fg(fg) \o write_ansi_bg(bg)

(***************************************************************************)
(* Screen::refresh                                                         *)
(***************************************************************************)
\* the loop `while x + run_length <= last && run_length < 256 && ...is_blank()`,
\* sixteen iterations at once where the condition holds for all of them
RECURSIVE BlankRun(_, _, _, _)
BlankRun(line, x, last_x, run_length) ==
    IF /\ x + run_length + 15 <= last_x
       /\ run_length + 15 < 256
       /\ \A k \in 0..15 : is_blank(At(line, x + run_length + k))
    THEN BlankRun(line, x, last_x, run_length + 16)
    ELSE IF /\ x + run_length <= last_x
       /\ run_length < 256
       /\ is_blank(At(line, x + run_length))
    THEN BlankRun(line, x, last_x, run_length + 1)
    ELSE run_length

\* EmitCells with the style written before every cell, changed or not
RECURSIVE EmitCellsUncached(_, _, _, _)
EmitCellsUncached(s, y, x, last_x) ==
    IF x > last_x THEN s
    ELSE LET cell == At(At(s.pending_content, y), x)
             s1 == [s EXCEPT
                      !.last_emitted_attr = cell.attr,
                      !.last_emitted_fg = cell.fg,
                      !.last_emitted_bg = cell.bg,
                      !.buffer = Append(@, SGR(style_sequence(cell.attr, cell.fg, cell.bg)))]
         IN EmitCellsUncached([s1 EXCEPT !.buffer = Append(@, CH(cell.ch))], y, x + 1, last_x)

\* the loop `while x <= last` over the cells of one row (screen.rs:496-613)
RECURSIVE EmitCells(_, _, _, _)
EmitCells(s, y, x, last_x) ==
    IF x > last_x THEN s
    ELSE LET cell == At(At(s.pending_content, y), x)
             style_changed ==
                 \/ cell.attr # s.last_emitted_attr
                 \/ cell.fg # s.last_emitted_fg
                 \/ cell.bg # s.last_emitted_bg
             s1 == IF style_changed
                   THEN [s EXCEPT
                           !.last_emitted_attr = cell.attr,
                           !.last_emitted_fg = cell.fg,
                           !.last_emitted_bg = cell.bg,
                           !.buffer = Append(@, SGR(style_sequence(cell.attr, cell.fg, cell.bg)))]
                   ELSE s
             run_length == IF is_blank(cell)
                           THEN BlankRun(At(s.pending_content, y), x, last_x, 1)
                           ELSE 1
         IN IF is_blank(cell) /\ run_length >= 8
            THEN EmitCells([s1 EXCEPT !.buffer = Append(@, ECH(run_length))],
                           y, x + run_length, last_x)
            ELSE EmitCells([s1 EXCEPT !.buffer = Append(@, CH(cell.ch))], y, x + 1, last_x)

\* refresh_line that writes the whole dirty interval of a row that differs
refresh_line_whole_interval(s, y) ==
    LET dirty == range(s.dirty_lines[y + 1])[2]
        diff == find_line_diff(At(s.current_content, y), At(s.pending_content, y))
        s1 == IF diff # None /\ dirty[1] <= dirty[2]
              THEN EmitCells([s EXCEPT !.buffer = Append(@, CUP(y + 1, dirty[1] + 1))],
                             y, dirty[1], dirty[2])
              ELSE s
    IN [s1 EXCEPT !.dirty_lines[y + 1] = clean]

\* the body of the row loop for a dirty row y, up to the cleaning of its flag
\* (screen.rs:482-620)
refresh_line(s, y) ==
    LET dirty == range(s.dirty_lines[y + 1])[2]
        diff == find_line_diff(At(s.current_content, y), At(s.pending_content, y))
        first == Max(diff[2][1], dirty[1])
        last_x == Min(diff[2][2], dirty[2])
        s1 == IF diff # None /\ first <= last_x
              THEN EmitCells([s EXCEPT !.buffer = Append(@, CUP(y + 1, first + 1))],
                             y, first, last_x)
              ELSE s
    IN [s1 EXCEPT !.dirty_lines[y + 1] = clean]

\* check_pending_input: `poll` says what the poll() calls of this refresh return,
\* call number poll.at being the first that is readable or fails
NoInput == [at |-> 0, kind |-> "readable"]

\* check_pending_input that probes while hold_refresh is in effect
check_pending_input_unheld(s, poll, polls) ==
    IF polls + 1 = poll.at
    THEN (IF poll.kind = "readable" THEN "true" ELSE "Err")
    ELSE "false"

check_pending_input(s, poll, polls) ==
    IF s.fifo_hold THEN "false"
    ELSE IF polls + 1 = poll.at
         THEN (IF poll.kind = "readable" THEN "true" ELSE "Err")
         ELSE "false"

\* the end of the body of the row loop with an abort that cleans the dirty
\* interval of every row, the rows not processed included
line_processed_cleaning(L, s1, poll) ==
    LET lines_processed == L.lines_processed + 1
        checked == lines_processed % s1.check_interval = 0
        input == IF checked THEN check_pending_input(s1, poll, L.polls) ELSE "false"
    IN [s |-> IF input = "true"
              THEN [s1 EXCEPT !.dirty_lines = [y \in 1..s1.rows |-> clean]]
              ELSE s1,
        lines_processed |-> lines_processed,
        polls |-> IF checked /\ ~s1.fifo_hold THEN L.polls + 1 ELSE L.polls,
        refresh_aborted |-> input = "true",
        failed |-> input = "Err"]

\* the end of the body of the row loop, s1 being the screen after the row was
\* emitted (screen.rs:616-631): count the line and check for pending input
line_processed(L, s1, poll) ==
    LET lines_processed == L.lines_processed + 1
        checked == lines_processed % s1.check_interval = 0
        input == IF checked THEN check_pending_input(s1, poll, L.polls) ELSE "false"
    IN [s |-> s1,
        lines_processed |-> lines_processed,
        polls |-> IF checked /\ ~s1.fifo_hold THEN L.polls + 1 ELSE L.polls,
        refresh_aborted |-> input = "true",
        failed |-> input = "Err"]

\* the row loop (screen.rs:481-633)
RECURSIVE refresh_lines(_, _, _)
refresh_lines(L, y, poll) ==
    IF L.failed \/ L.refresh_aborted \/ y >= L.s.rows THEN L
    ELSE IF range(L.s.dirty_lines[y + 1]) = None THEN refresh_lines(L, y + 1, poll)
    ELSE refresh_lines(line_processed(L, refresh_line(L.s, y), poll), y + 1, poll)

\* refresh without the rehash of the dirty rows
rehash_skipped(s) == s

\* screen.rs:451-457
rehash(s) ==
    [s EXCEPT !.pending_line_hashes =
        [y \in 1..s.rows |->
           IF range(s.dirty_lines[y]) # None /\ s.pending_line_hashes[y] = Zero64
           THEN hash_line(s.pending_content[y])
           ELSE s.pending_line_hashes[y]]]

\* the scroll sequences with shift 0 taken for a scroll down
RECURSIVE scroll_sequences_unfiltered(_)
scroll_sequences_unfiltered(scrolls) ==
    IF scrolls = <<>> THEN <<>>
    ELSE LET scroll == Head(scrolls)
             delete_at == scroll.start + scroll.size
             seq == IF scroll.shift > 0
                    THEN <<CUP(delete_at + 1, 1), DL(scroll.shift)>>
                    ELSE <<CUP(scroll.start + 1, 1), IL(Abs(scroll.shift))>>
         IN seq \o scroll_sequences_unfiltered(Tail(scrolls))

\* screen.rs:462-475
RECURSIVE scroll_sequences(_)
scroll_sequences(scrolls) ==
    IF scrolls = <<>> THEN <<>>
    ELSE LET scroll == Head(scrolls)
             delete_at == scroll.start + scroll.size
             seq == IF scroll.shift > 0
                    THEN <<CUP(delete_at + 1, 1), DL(scroll.shift)>>
                    ELSE IF scroll.shift < 0
                    THEN <<CUP(scroll.start + 1, 1), IL(Abs(scroll.shift))>>
                    ELSE <<>>
         IN seq \o scroll_sequences(Tail(scrolls))

\* screen.rs:640-641: the two std::mem::swap calls
swap(s) ==
    [s EXCEPT
       !.current_content = s.pending_content,
       !.pending_content = s.current_content,
       !.current_line_hashes = s.pending_line_hashes,
       !.pending_line_hashes = s.current_line_hashes]

\* screen.rs:644-647: copy current back to pending
copy_back(s) ==
    [s EXCEPT
       !.pending_content = s.current_content,
       !.pending_line_hashes = s.current_line_hashes]

\* the commit without the copy back to pending
commit_without_copy(s) == swap(s)

\* screen.rs:639-648: swap current and pending, then copy current back to pending
commit(s) == copy_back(swap(s))

\* write_all_stdout (platform_io.rs:45-98): an empty buffer is no write at all;
\* `sent` = -1 when every byte is written, else the number of tokens the
\* terminal received before write() failed
WriteOk == -1

write_all_stdout(buf, sent) ==
    IF buf = <<>> \/ sent = WriteOk \/ sent >= Len(buf)
    THEN [rc |-> "Ok", written |-> buf]
    ELSE [rc |-> "Err", written |-> SubSeq(buf, 1, sent)]

\* Backend::doupdate (backend.rs:289-300): an empty update buffer is no write;
\* the buffer is cleared after a write that succeeded
doupdate(ub, sent) ==
    IF ub = <<>> THEN [rc |-> "Ok", written |-> <<>>, update_buffer |-> ub]
    ELSE IF write_all_stdout(ub, sent).rc = "Ok"
    THEN [rc |-> "Ok", written |-> ub, update_buffer |-> <<>>]
    ELSE [rc |-> "Err", written |-> write_all_stdout(ub, sent).written,
          update_buffer |-> ub]

\* the end of refresh with the buffers swapped after an abort as well
refresh_return_swapping(L, scrolls, w) ==
    IF w.rc = "Err"
    THEN [screen |-> L.s, rc |-> "Err", error |-> "write", written |-> w.written,
          aborted |-> L.refresh_aborted, scrolls |-> scrolls, polls |-> L.polls]
    ELSE [screen |-> IF L.refresh_aborted THEN swap(L.s) ELSE commit(L.s),
          rc |-> "Ok", error |-> "none", written |-> w.written,
          aborted |-> L.refresh_aborted, scrolls |-> scrolls, polls |-> L.polls]

\* the end of refresh with the buffer of an aborted refresh dropped, not written
refresh_return_unflushed(L, scrolls, w) ==
    IF w.rc = "Err"
    THEN [screen |-> L.s, rc |-> "Err", error |-> "write", written |-> w.written,
          aborted |-> L.refresh_aborted, scrolls |-> scrolls, polls |-> L.polls]
    ELSE [screen |-> IF L.refresh_aborted THEN L.s ELSE commit(L.s),
          rc |-> "Ok", error |-> "none",
          written |-> IF L.refresh_aborted THEN <<>> ELSE w.written,
          aborted |-> L.refresh_aborted, scrolls |-> scrolls, polls |-> L.polls]

\* the end of refresh (screen.rs:636-650), L being the state after the row loop
\* and w the outcome of the write: nothing is committed after an abort
refresh_return(L, scrolls, w) ==
    IF w.rc = "Err"
    THEN [screen |-> L.s, rc |-> "Err", error |-> "write", written |-> w.written,
          aborted |-> L.refresh_aborted, scrolls |-> scrolls, polls |-> L.polls]
    ELSE [screen |-> IF L.refresh_aborted THEN L.s ELSE commit(L.s),
          rc |-> "Ok", error |-> "none", written |-> w.written,
          aborted |-> L.refresh_aborted, scrolls |-> scrolls, polls |-> L.polls]

\* screen.rs:622-636: an error of poll() returns at once, before the write
refresh_write(L, scrolls, sent) ==
    IF L.failed
    THEN [screen |-> L.s, rc |-> "Err", error |-> "poll", written |-> <<>>,
          aborted |-> FALSE, scrolls |-> scrolls, polls |-> L.polls]
    ELSE refresh_return(L, scrolls, write_all_stdout(L.s.buffer, sent))

\* screen.rs:462-633: the scroll sequences, then the row loop
refresh_scrolled(s1, scrolls, poll, sent) ==
    refresh_write(
        refresh_lines([s |-> [s1 EXCEPT !.buffer = @ \o scroll_sequences(scrolls)],
                       lines_processed |-> 0, polls |-> 0,
                       refresh_aborted |-> FALSE, failed |-> FALSE], 0, poll),
        scrolls, sent)

\* screen.rs:460
refresh_rehashed(s1, poll, sent) ==
    refresh_scrolled(s1, detect_scrolls(s1.current_line_hashes, s1.pending_line_hashes),
                     poll, sent)

\* Screen::refresh under the inputs of its environment: the result of the poll()
\* calls and of the write
refresh(s, poll, sent) == refresh_rehashed(rehash([s EXCEPT !.buffer = <<>>]), poll, sent)

(***************************************************************************)
(* The terminal: a rows x cols grid of cells, a cursor and the graphic     *)
(* rendition in effect, driven by the tokens written to it (ECMA-48)       *)
(***************************************************************************)
BlankTerm(rows, cols) ==
    [grid |-> BlankGrid(rows, cols), rows |-> rows, cols |-> cols,
     cy |-> 0, cx |-> 0, attr |-> NORMAL, fg |-> Reset, bg |-> Reset, touched |-> {}]

NameOfIndex(i) == <<CHOOSE n \in DOMAIN NamedIndex : NamedIndex[n] = i>>

AttrOfCode(c) == CHOOSE a \in DOMAIN AttrCode : AttrCode[a] = c

\* Select Graphic Rendition: the parameters one after the other
RECURSIVE ApplySgr(_, _)
ApplySgr(T, params) ==
    IF params = <<>> THEN T
    ELSE LET p == Head(params)
             rest == Tail(params)
         IN CASE p = 0 -> ApplySgr([T EXCEPT !.attr = NORMAL, !.fg = Reset, !.bg = Reset], rest)
              [] p \in {1, 2, 3, 4, 5, 7, 8, 9} ->
                    ApplySgr([T EXCEPT !.attr = @ \cup {AttrOfCode(p)}], rest)
              [] p \in 30..37 -> ApplySgr([T EXCEPT !.fg = NameOfIndex(p - 30)], rest)
              [] p \in 90..97 -> ApplySgr([T EXCEPT !.fg = NameOfIndex(p - 90 + 8)], rest)
              [] p = 39 -> ApplySgr([T EXCEPT !.fg = Reset], rest)
              [] p \in 40..47 -> ApplySgr([T EXCEPT !.bg = NameOfIndex(p - 40)], rest)
              [] p \in 100..107 -> ApplySgr([T EXCEPT !.bg = NameOfIndex(p - 100 + 8)], rest)
              [] p = 49 -> ApplySgr([T EXCEPT !.bg = Reset], rest)
              [] p = 38 /\ rest[1] = 5 ->
                    ApplySgr([T EXCEPT !.fg = Ansi256(rest[2])], SubSeq(rest, 3, Len(rest)))
              [] p = 38 /\ rest[1] = 2 ->
                    ApplySgr([T EXCEPT !.fg = Rgb(rest[2], rest[3], rest[4])],
                             SubSeq(rest, 5, Len(rest)))
              [] p = 48 /\ rest[1] = 5 ->
                    ApplySgr([T EXCEPT !.bg = Ansi256(rest[2])], SubSeq(rest, 3, Len(rest)))
              [] p = 48 /\ rest[1] = 2 ->
                    ApplySgr([T EXCEPT !.bg = Rgb(rest[2], rest[3], rest[4])],
                             SubSeq(rest, 5, Len(rest)))

Clamp(v, lo, hi) == Max(lo, Min(v, hi))

BlankRow(cols) == [x \in 1..cols |-> blank]

\* a printed character: written at the cursor in the rendition in effect; the
\* cursor advances, and past the last column the next character wraps
PutChar(T, ch) ==
    LET wrap == T.cx >= T.cols
        scroll == wrap /\ T.cy = T.rows - 1
        grid0 == IF scroll
                 THEN [y \in 1..T.rows |-> IF y < T.rows THEN T.grid[y + 1] ELSE BlankRow(T.cols)]
                 ELSE T.grid
        cy == IF wrap /\ ~scroll THEN T.cy + 1 ELSE T.cy
        cx == IF wrap THEN 0 ELSE T.cx
    IN [T EXCEPT
          !.grid = [grid0 EXCEPT ![cy + 1][cx + 1] = with_style(ch, T.attr, T.fg, T.bg)],
          !.cy = cy,
          !.cx = cx + 1,
          !.touched = @ \cup {<<cy, cx>>}]

\* Erase Character: n cells from the cursor become blank, the cursor stays
EraseChars(T, n) ==
    LET cx == Min(T.cx, T.cols - 1)
        erased == {x \in 0..(T.cols - 1) : x >= cx /\ x < cx + n}
    IN [T EXCEPT
          !.grid[T.cy + 1] = [x \in 1..T.cols |-> IF x - 1 \in erased THEN blank ELSE @[x]],
          !.touched = @ \cup {<<T.cy, x>> : x \in erased}]

\* Insert Lines: n blank lines at the cursor line, the lines from there move down
InsertLines(T, n) ==
    [T EXCEPT
       !.grid = [y \in 1..T.rows |->
                   IF y - 1 < T.cy THEN T.grid[y]
                   ELSE IF y - 1 < T.cy + n THEN BlankRow(T.cols)
                   ELSE T.grid[y - n]],
       !.cx = 0]

\* Delete Lines: n lines from the cursor line go, the lines below move up
DeleteLines(T, n) ==
    [T EXCEPT
       !.grid = [y \in 1..T.rows |->
                   IF y - 1 < T.cy THEN T.grid[y]
                   ELSE IF y + n <= T.rows THEN T.grid[y + n]
                   ELSE BlankRow(T.cols)],
       !.cx = 0]

ApplyToken(T, tok) ==
    CASE tok.t = "CUP" -> [T EXCEPT !.cy = Clamp(tok.row - 1, 0, T.rows - 1),
                                    !.cx = Clamp(tok.col - 1, 0, T.cols - 1)]
      [] tok.t = "CUF" -> [T EXCEPT !.cx = Clamp(Min(@, T.cols - 1) + tok.n, 0, T.cols - 1)]
      [] tok.t = "CUB" -> [T EXCEPT !.cx = Clamp(Min(@, T.cols - 1) - tok.n, 0, T.cols - 1)]
      [] tok.t = "CUD" -> [T EXCEPT !.cy = Clamp(@ + tok.n, 0, T.rows - 1)]
      [] tok.t = "CUU" -> [T EXCEPT !.cy = Clamp(@ - tok.n, 0, T.rows - 1)]
      [] tok.t = "SGR" -> ApplySgr(T, tok.params)
      [] tok.t = "CH" -> PutChar(T, tok.ch)
      [] tok.t = "ECH" -> EraseChars(T, tok.n)
      [] tok.t = "IL" -> InsertLines(T, tok.n)
      [] tok.t = "DL" -> DeleteLines(T, tok.n)
      [] tok.t = "DECTCEM" -> T
      [] tok.t = "KITTY" -> T

RECURSIVE ApplyTokens(_, _)
ApplyTokens(T, toks) ==
    IF toks = <<>> THEN T ELSE ApplyTokens(ApplyToken(T, Head(toks)), Tail(toks))

\* the terminal after it received toks, and the cells the tokens wrote
Receive(T, toks) == ApplyTokens([T EXCEPT !.touched = {}], toks)

(***************************************************************************)
(* The calls a program makes on its Screen                                 *)
(***************************************************************************)
Chars == {" ", "a"}

\* the rows of the frame a program paints before a run starts
FrameTexts == <<<<"a">>, <<"a">>, <<" ", "a">>, <<"a", "a">>>>

\* the strings printed: the empty string and the strings of the painted frame
Texts == {<<>>} \cup {FrameTexts[i] : i \in 1..Len(FrameTexts)}

RECURSIVE PaintRows(_, _)
PaintRows(s, y) ==
    IF y >= s.rows THEN s
    ELSE PaintRows(mvprint(s, y, 0, FrameTexts[(y % Len(FrameTexts)) + 1]), y + 1)

NotCalled == <<"NotCalled">>

\* last: the call made last; for a refresh its return value, whether it aborted,
\* the tokens the terminal received, the hunks detected, the number of poll()
\* calls, and whether the call before it was a refresh that completed
NoCall == [op |-> "none", rc |-> "Ok", error |-> "none", aborted |-> FALSE,
           written |-> <<>>, scrolls |-> <<>>, polls |-> 0, after_completed |-> FALSE]

Completes(l) == l.op = "refresh" /\ l.rc = "Ok" /\ ~l.aborted

\* hist: the refreshes since the last drawing operation.  phase is "idle" (none
\* yet), "aborted" (all of them aborted on input), "done" (aborts, then one that
\* completed) or "broken" (one returned an error).  Two fields span the whole
\* run: all_completed (no refresh so far aborted or failed) and scrolled (some
\* refresh so far wrote an insert-lines or delete-lines sequence)
Idle == [phase |-> "idle", aborts |-> 0, expect |-> <<>>, owed |-> {}, sent |-> {},
         hunks |-> FALSE, all_completed |-> TRUE, scrolled |-> FALSE]

\* the cells of the pending frame that differ from current inside their row's
\* dirty interval
Owed(s) ==
    {c \in (0..(s.rows - 1)) \X (0..(s.cols - 1)) :
        /\ At(At(s.pending_content, c[1]), c[2]) # At(At(s.current_content, c[1]), c[2])
        /\ range(s.dirty_lines[c[1] + 1]) # None
        /\ range(s.dirty_lines[c[1] + 1])[2][1] <= c[2]
        /\ c[2] <= range(s.dirty_lines[c[1] + 1])[2][2]}

\* what one refresh that completes makes of the frame
Frame(s) ==
    [current_content |-> s.current_content,
     current_line_hashes |-> s.current_line_hashes]

Completed(s) == Frame(refresh(s, NoInput, WriteOk).screen)

Scrolls(r) == \E i \in 1..Len(r.scrolls) : r.scrolls[i].shift # 0

FrameHist(h, s, r, T) ==
    IF h.phase \in {"done", "broken"} THEN h
    ELSE [h EXCEPT
            !.phase = IF r.rc = "Err" THEN "broken"
                      ELSE IF r.aborted THEN "aborted" ELSE "done",
            !.aborts = IF r.rc = "Ok" /\ r.aborted THEN @ + 1 ELSE @,
            !.expect = IF h.phase = "idle" THEN Completed(s) ELSE @,
            !.owed = IF h.phase = "idle" THEN Owed(s) ELSE @,
            !.sent = @ \cup T.touched,
            !.hunks = @ \/ r.scrolls # <<>>]

NextHist(h, s, r, T) ==
    [FrameHist(h, s, r, T) EXCEPT
       !.all_completed = @ /\ r.rc = "Ok" /\ ~r.aborted,
       !.scrolled = @ \/ Scrolls(r)]

Call(op, s) ==
    /\ ops < MaxOps
    /\ ops' = ops + 1
    /\ screen' = s
    /\ last' = [NoCall EXCEPT !.op = op]
    /\ UNCHANGED <<term, old_line, new_line, diff_result, hash_result, args, ret, update_buffer, object_vars>>

Draw(s) ==
    /\ Call("draw", s)
    /\ hist' = [Idle EXCEPT !.all_completed = hist.all_completed,
                            !.scrolled = hist.scrolled]

Configure(s) == Call("configure", s) /\ UNCHANGED hist

DoMoveCursor == \E y \in {1, Rows}, x \in {0, 1} : Draw(move_cursor(screen, y, x))

DoPrint == \E text \in Texts : Draw(print(screen, text))

DoMvPrint == \E y \in 0..(Rows - 1), text \in Texts : Draw(mvprint(screen, y, 0, text))

DoAddCh == \E ch \in Chars : Draw(addch(screen, ch))

DoClear == Draw(clear(screen))

DoClrToEol == Draw(clrtoeol(screen))

DoClrToBot == Draw(clrtobot(screen))

DoSetCheckInterval == \E lines \in {0, 2} : Configure(set_check_interval(screen, lines))

DoHoldRefresh == Configure(hold_refresh(screen))

DoReleaseRefresh == Configure(release_refresh(screen))

\* refresh has returned r and the terminal, having received r.written, is T
Refreshed(r, T) ==
    /\ screen' = r.screen
    /\ term' = T
    /\ last' = [op |-> "refresh", rc |-> r.rc, error |-> r.error,
                aborted |-> r.aborted, written |-> r.written,
                scrolls |-> r.scrolls, polls |-> r.polls,
                after_completed |-> Completes(last)]
    /\ hist' = NextHist(hist, screen, r, T)

\* the environment of the call is one the call met: poll() was called `at` times
\* at least, and a write that fails had bytes to write
Refreshing(r, at, sent) ==
    /\ at <= r.polls
    /\ sent < Len(r.screen.buffer)
    /\ Refreshed(r, Receive(term, r.written))

\* refresh, with what poll() and write() do during the call
DoRefresh ==
    /\ ops < MaxOps
    /\ \E at \in 0..Rows, kind \in {"readable", "error"}, sent \in {WriteOk, 0, 2} :
         /\ at = 0 => kind = "readable"
         /\ Refreshing(refresh(screen, [at |-> at, kind |-> kind], sent), at, sent)
    /\ ops' = ops + 1
    /\ UNCHANGED <<old_line, new_line, diff_result, hash_result, args, ret, update_buffer, object_vars>>

\* the program starts with the Screen r.screen that its first refresh left
Started(r, lines) ==
    /\ screen = set_check_interval(r.screen, lines)
    /\ term = Receive(BlankTerm(Rows, Cols), r.written)

\* a Screen on a Rows x Cols terminal after the program painted a frame, or
\* nothing, and refreshed; the check interval as constructed or set to 1
Init ==
    /\ \E first \in {0, Rows}, lines \in {1, 5} :
         Started(refresh(PaintRows(init(Rows, Cols), first), NoInput, WriteOk), lines)
    /\ last = NoCall
    /\ hist = Idle
    /\ ops = 0
    /\ old_line = <<>>
    /\ new_line = <<>>
    /\ diff_result = NotCalled
    /\ hash_result = NotCalled
    /\ args = NotCalled
    /\ ret = NotCalled
    /\ update_buffer = <<>>
    /\ NoObjects

Next ==
    \/ DoMoveCursor
    \/ DoPrint
    \/ DoMvPrint
    \/ DoAddCh
    \/ DoClear
    \/ DoClrToEol
    \/ DoClrToBot
    \/ DoSetCheckInterval
    \/ DoHoldRefresh
    \/ DoReleaseRefresh
    \/ DoRefresh

Spec == Init /\ [][Next]_vars

(***************************************************************************)
(* delta.rs called on its own: find_line_diff and hash_line on rows of at  *)
(* most MaxLineLen cells                                                   *)
(***************************************************************************)
DeltaCells == {blank, new("X"), with_style(" ", {"BOLD"}, Reset, Reset),
               with_style(" ", NORMAL, Reset, Red)}

RECURSIVE LinesOfLen(_)
LinesOfLen(n) ==
    IF n = 0 THEN {<<>>}
    ELSE {Append(l, c) : l \in LinesOfLen(n - 1), c \in DeltaCells}

Lines == UNION {LinesOfLen(n) : n \in 0..MaxLineLen}

CallFindLineDiff ==
    /\ diff_result' = find_line_diff(old_line, new_line)
    /\ UNCHANGED <<screen, term, last, hist, ops, old_line, new_line, hash_result,
                    args, ret, update_buffer, object_vars>>

CallHashLine ==
    /\ hash_result' = hash_line(new_line)
    /\ UNCHANGED <<screen, term, last, hist, ops, old_line, new_line, diff_result,
                    args, ret, update_buffer, object_vars>>

InitDelta ==
    /\ screen = init(Rows, Cols)
    /\ term = BlankTerm(Rows, Cols)
    /\ last = NoCall
    /\ hist = Idle
    /\ ops = 0
    /\ old_line \in Lines
    /\ new_line \in Lines
    /\ diff_result = NotCalled
    /\ hash_result = NotCalled
    /\ args = NotCalled
    /\ ret = NotCalled
    /\ update_buffer = <<>>
    /\ NoObjects

NextDelta == CallFindLineDiff \/ CallHashLine

SpecDelta == InitDelta /\ [][NextDelta]_vars

(***************************************************************************)
(* delta.rs called on its own: detect_scrolls on two vectors of line       *)
(* hashes.  The vectors are all those of ShortLen hashes out of            *)
(* 0..MaxShortHash, and vectors of LongLen hashes in which the new one     *)
(* holds two stretches of the old one, each moved by up to MaxShift lines, *)
(* with one line overwritten                                               *)
(***************************************************************************)
ShortLen == 4
MaxShortHash == 2
LongLen == 8
MaxShift == 4

RECURSIVE HashVectors(_, _)
HashVectors(n, values) ==
    IF n = 0 THEN {<<>>}
    ELSE {Append(v, U64(h)) : v \in HashVectors(n - 1, values), h \in values}

\* the hash of a line that occurs in no old vector
FreshHash == LongLen + 1

OldVectors == {[i \in 1..LongLen |-> U64(i)],
               [i \in 1..LongLen |-> U64(IF i = 4 THEN 1 ELSE i)]}

\* line i of the new vector is line i + s1 of the old one before cut and
\* line i + s2 from cut on, filler where there is no such line, and line p
\* is overwritten with v
Moved(old, s1, s2, cut, filler, p, v) ==
    [j \in 1..LongLen |->
        LET i == j - 1
            from == IF i < cut THEN i + s1 ELSE i + s2
        IN IF i = p THEN U64(v)
           ELSE IF from >= 0 /\ from < LongLen THEN At(old, from)
           ELSE U64(filler)]

LongPairs ==
    {[old_hashes |-> old, new_hashes |-> Moved(old, m[1], m[2], m[3], m[4], m[5], m[6])] :
        old \in OldVectors,
        m \in ((0 - MaxShift)..MaxShift) \X ((0 - MaxShift)..MaxShift) \X (0..LongLen)
              \X {0, FreshHash} \X (0..LongLen) \X {0, 1}}

ShortPairs ==
    {[old_hashes |-> old, new_hashes |-> new_] :
        old \in HashVectors(ShortLen, 0..MaxShortHash),
        new_ \in HashVectors(ShortLen, 0..MaxShortHash)}

CallDetectScrolls ==
    /\ ret = NotCalled
    /\ ret' = Some(detect_scrolls(args.old_hashes, args.new_hashes))
    /\ UNCHANGED <<screen, term, last, hist, ops, old_line, new_line, diff_result,
                    hash_result, args, update_buffer, object_vars>>

InitScroll ==
    /\ screen = init(Rows, Cols)
    /\ term = BlankTerm(Rows, Cols)
    /\ last = NoCall
    /\ hist = Idle
    /\ ops = 0
    /\ old_line = <<>>
    /\ new_line = <<>>
    /\ diff_result = NotCalled
    /\ hash_result = NotCalled
    /\ args \in LongPairs \cup ShortPairs
    /\ ret = NotCalled
    /\ update_buffer = <<>>
    /\ NoObjects

NextScroll == CallDetectScrolls

SpecScroll == InitScroll /\ [][NextScroll]_vars

(***************************************************************************)
(* DirtyRegion::mark and Screen::move_cursor called on their own: marks of *)
(* columns 0..MaxMark on the dirty region of row 0, and one move from any  *)
(* tracked cursor to any target, both out of CursorCoords                  *)
(***************************************************************************)
MaxMark == 2

CursorCoords == {0, 1, 3, 4, 9, U16_MAX}

\* the number of bytes of a sequence move_cursor writes: ESC, [, the decimal
\* digits of each number, the ; between two numbers, and the final letter
ByteLen(seq) ==
    LET Digits(n) == IF n < 10 THEN 1 ELSE IF n < 100 THEN 2 ELSE IF n < 1000 THEN 3
                     ELSE IF n < 10000 THEN 4 ELSE 5
    IN IF seq.t = "CUP" THEN 2 + Digits(seq.row) + 1 + Digits(seq.col) + 1
       ELSE 2 + Digits(seq.n) + 1

CallMark(start, end) ==
    /\ screen' = [screen EXCEPT !.dirty_lines[1] = mark(@, start, end)]
    /\ UNCHANGED <<term, last, hist, ops, old_line, new_line, diff_result,
                    hash_result, args, ret, update_buffer, object_vars>>

\* one call of move_cursor; checks is whether overflow checks are compiled in
CallMoveCursor(y, x, checks) ==
    /\ ret = NotCalled
    /\ args' = [y |-> y, x |-> x, cursor_y |-> screen.cursor_y,
                cursor_x |-> screen.cursor_x]
    /\ IF checks /\ move_cursor_overflows(screen, y, x)
       THEN ret' = <<"panic">> /\ UNCHANGED screen
       ELSE ret' = Some("Ok") /\ screen' = move_cursor(screen, y, x)
    /\ UNCHANGED <<term, last, hist, ops, old_line, new_line, diff_result,
                    hash_result, update_buffer, object_vars>>

InitCalls ==
    /\ \E cy \in CursorCoords, cx \in CursorCoords :
          screen = [init(Rows, Cols) EXCEPT !.cursor_y = cy, !.cursor_x = cx]
    /\ term = BlankTerm(Rows, Cols)
    /\ last = NoCall
    /\ hist = Idle
    /\ ops = 0
    /\ old_line = <<>>
    /\ new_line = <<>>
    /\ diff_result = NotCalled
    /\ hash_result = NotCalled
    /\ args = NotCalled
    /\ ret = NotCalled
    /\ update_buffer = <<>>
    /\ NoObjects

NextCalls ==
    \/ \E start \in 0..MaxMark, end \in 0..MaxMark : CallMark(start, end)
    \/ \E y \in CursorCoords, x \in CursorCoords, checks \in BOOLEAN :
          CallMoveCursor(y, x, checks)

SpecCalls == InitCalls /\ [][NextCalls]_vars

(***************************************************************************)
(* Styled cells: a Screen of one row and StyleCols columns on which the    *)
(* program has set a style and written the first cell, then up to MaxOps   *)
(* calls that set a style, write a cell, clear, or refresh                 *)
(***************************************************************************)
StyleCols == 2

StyleAttrs == {NORMAL, {"BOLD"}, {"UNDERLINE"}, {"BOLD", "UNDERLINE"}}

StyleColors == {Reset, Red}

DoAttrSet == \E attr \in StyleAttrs : Configure(attrset(screen, attr))

DoSetFg == \E color \in StyleColors : Configure(set_fg(screen, color))

InitStyle ==
    /\ \E attr \in StyleAttrs, color \in StyleColors :
          screen = addch(set_fg(attrset(init(1, StyleCols), attr), color), "a")
    /\ term = BlankTerm(1, StyleCols)
    /\ last = NoCall
    /\ hist = Idle
    /\ ops = 0
    /\ old_line = <<>>
    /\ new_line = <<>>
    /\ diff_result = NotCalled
    /\ hash_result = NotCalled
    /\ args = NotCalled
    /\ ret = NotCalled
    /\ update_buffer = <<>>
    /\ NoObjects

NextStyle == DoAttrSet \/ DoSetFg \/ DoAddCh \/ DoClear \/ DoRefresh

SpecStyle == InitStyle /\ [][NextStyle]_vars

(***************************************************************************)
(* Long rows: a Screen of one row and WideCols columns with "a" written in *)
(* its first cell and refreshed, then up to MaxOps calls that write a cell *)
(* at one of WideColumns, clear to the end of the row, or refresh          *)
(***************************************************************************)
WideCols == 258

\* the columns written to: the first, the last, and those that close a run
\* of 7 and of 8 cells after the first
WideColumns == {0, 7, 8, WideCols - 1}

DoMvAddCh == \E x \in WideColumns, ch \in Chars : Draw(mvaddch(screen, 0, x, ch))

StartedWide(r) ==
    /\ screen = r.screen
    /\ term = Receive(BlankTerm(1, WideCols), r.written)

InitWide ==
    /\ StartedWide(refresh(mvaddch(init(1, WideCols), 0, 0, "a"), NoInput, WriteOk))
    /\ last = NoCall
    /\ hist = Idle
    /\ ops = 0
    /\ old_line = <<>>
    /\ new_line = <<>>
    /\ diff_result = NotCalled
    /\ hash_result = NotCalled
    /\ args = NotCalled
    /\ ret = NotCalled
    /\ update_buffer = <<>>
    /\ NoObjects

NextWide == DoMvAddCh \/ DoClrToEol \/ DoRefresh

SpecWide == InitWide /\ [][NextWide]_vars

(***************************************************************************)
(* The whole drawing interface: a Screen of ApiRows rows on which a        *)
(* program moves the cursor (past the grid as well), draws, sets the       *)
(* drawing state, queues control sequences and flushes with refresh or     *)
(* with wnoutrefresh and doupdate                                          *)
(***************************************************************************)
ApiRows == 2

PairIds == {1, 2}

KittyFlags == {1}

\* a call that records its arguments in args
ApiCall(op, a, s) ==
    /\ ops < MaxOps
    /\ ops' = ops + 1
    /\ screen' = s
    /\ args' = a
    /\ last' = [NoCall EXCEPT !.op = op]
    /\ UNCHANGED <<term, hist, old_line, new_line, diff_result, hash_result, ret,
                    update_buffer, object_vars>>

\* the strings printed: ASCII text and text with a character of two bytes
ApiTexts == {<<>>, <<"a">>, <<"é">>, <<"é", "a">>}

CallPrint == \E text \in ApiTexts : ApiCall("print", [text |-> text], print(screen, text))

CallAddCh == \E ch \in Chars : ApiCall("addch", [ch |-> ch], addch(screen, ch))

\* move_cursor to the last row a u16 can name; checks is whether overflow
\* checks are compiled in, and a panic ends the program
CallMoveCursorFar ==
    \E x \in {0, U16_MAX}, checks \in BOOLEAN :
        /\ ops < MaxOps
        /\ args' = [y |-> U16_MAX, x |-> x]
        /\ IF checks /\ move_cursor_overflows(screen, U16_MAX, x)
           THEN /\ ops' = MaxOps
                /\ last' = [NoCall EXCEPT !.op = "move_cursor", !.rc = "panic"]
                /\ UNCHANGED screen
           ELSE /\ ops' = ops + 1
                /\ last' = [NoCall EXCEPT !.op = "move_cursor"]
                /\ screen' = move_cursor(screen, U16_MAX, x)
        /\ UNCHANGED <<term, hist, old_line, new_line, diff_result, hash_result, ret,
                        update_buffer, object_vars>>

CallClear == ApiCall("clear", <<>>, clear(screen))

CallAttrOn == \E attr \in StyleAttrs : ApiCall("attron", [attr |-> attr], attron(screen, attr))

CallAttrOff == \E attr \in StyleAttrs : ApiCall("attroff", [attr |-> attr], attroff(screen, attr))

CallAttrSet == \E attr \in StyleAttrs : ApiCall("attrset", [attr |-> attr], attrset(screen, attr))

CallSetFg == \E color \in StyleColors : ApiCall("set_fg", [color |-> color], set_fg(screen, color))

CallSetBg == \E color \in StyleColors : ApiCall("set_bg", [color |-> color], set_bg(screen, color))

CallInitPair ==
    \E pair \in PairIds, fg \in StyleColors, bg \in StyleColors :
        ApiCall("init_pair", [pair |-> pair, fg |-> fg, bg |-> bg],
                init_pair(screen, pair, fg, bg))

CallColorPair ==
    \E pair \in PairIds :
        /\ ops < MaxOps
        /\ ops' = ops + 1
        /\ args' = [pair |-> pair]
        /\ screen' = color_pair(screen, pair).screen
        /\ ret' = color_pair(screen, pair).result
        /\ last' = [NoCall EXCEPT !.op = "color_pair",
                                  !.rc = color_pair(screen, pair).result[1]]
        /\ UNCHANGED <<term, hist, old_line, new_line, diff_result, hash_result,
                        update_buffer, object_vars>>

CallCursorVisible ==
    \E visible \in BOOLEAN :
        ApiCall("cursor_visible", [visible |-> visible], cursor_visible(screen, visible))

CallKittyKeyboard ==
    \E flags \in KittyFlags :
        \/ ApiCall("enable_kitty_keyboard", [flags |-> flags],
                   enable_kitty_keyboard(screen, flags))
        \/ ApiCall("disable_kitty_keyboard", <<>>, disable_kitty_keyboard(screen))
        \/ ApiCall("push_kitty_keyboard", [flags |-> flags],
                   push_kitty_keyboard(screen, flags))
        \/ ApiCall("pop_kitty_keyboard", <<>>, pop_kitty_keyboard(screen))

CallWnoutrefresh ==
    /\ ops < MaxOps
    /\ ops' = ops + 1
    /\ screen' = wnoutrefresh(screen, update_buffer).screen
    /\ update_buffer' = wnoutrefresh(screen, update_buffer).update_buffer
    /\ last' = [NoCall EXCEPT !.op = "wnoutrefresh"]
    /\ UNCHANGED <<term, hist, old_line, new_line, diff_result, hash_result, args, ret,
                    object_vars>>

\* doupdate, with what the write does
CallDoupdate ==
    /\ ops < MaxOps
    /\ ops' = ops + 1
    /\ \E sent \in {WriteOk, 0} :
         /\ sent < Len(update_buffer)
         /\ update_buffer' = doupdate(update_buffer, sent).update_buffer
         /\ term' = Receive(term, doupdate(update_buffer, sent).written)
         /\ last' = [NoCall EXCEPT !.op = "doupdate",
                                   !.rc = doupdate(update_buffer, sent).rc,
                                   !.written = doupdate(update_buffer, sent).written]
    /\ UNCHANGED <<screen, hist, old_line, new_line, diff_result, hash_result, args, ret,
                    object_vars>>

\* the program starts after construction, or after it painted a frame and
\* refreshed
InitApi ==
    /\ \E first \in {0, ApiRows} :
         LET r == refresh(PaintRows(init(ApiRows, Cols), first), NoInput, WriteOk)
         IN /\ screen = r.screen
            /\ term = Receive(BlankTerm(ApiRows, Cols), r.written)
    /\ last = NoCall
    /\ hist = Idle
    /\ ops = 0
    /\ old_line = <<>>
    /\ new_line = <<>>
    /\ diff_result = NotCalled
    /\ hash_result = NotCalled
    /\ args = NotCalled
    /\ ret = NotCalled
    /\ update_buffer = <<>>
    /\ NoObjects

NextApi ==
    \/ DoMoveCursor
    \/ CallMoveCursorFar
    \/ CallPrint
    \/ DoMvPrint
    \/ CallAddCh
    \/ DoMvAddCh
    \/ CallClear
    \/ DoClrToEol
    \/ DoClrToBot
    \/ CallAttrOn
    \/ CallAttrOff
    \/ CallAttrSet
    \/ CallSetFg
    \/ CallSetBg
    \/ CallInitPair
    \/ CallColorPair
    \/ CallCursorVisible
    \/ CallKittyKeyboard
    \/ CallWnoutrefresh
    \/ CallDoupdate
    \/ DoRefresh

SpecApi == InitApi /\ [][NextApi]_vars

(***************************************************************************)
(* C9, C10: hash_line and find_line_diff                                   *)
(***************************************************************************)
AllBlank(line) == \A i \in 1..Len(line) : is_blank(line[i])

\* C9: hash_line returns 0 if and only if every cell of the row is blank: a
\* non-empty all-blank row hashes to 0, a row with a non-blank cell does not
C9_ZeroIffAllBlank ==
    hash_result # NotCalled => (hash_result = Zero64 <=> AllBlank(new_line))

\* the indices at which two rows of one length differ
Differ(old, new_) == {i \in 0..(Len(old) - 1) : At(old, i) # At(new_, i)}

SetMin(S) == CHOOSE m \in S : \A n \in S : m <= n
SetMax(S) == CHOOSE m \in S : \A n \in S : m >= n

\* C10: find_line_diff returns None exactly when old = new; for rows of one
\* length that differ it returns (f, l), f the smallest and l the largest index
\* at which they differ; for rows of different lengths (0, max(len(new), 1) - 1)
C10_FindLineDiff ==
    diff_result # NotCalled =>
        /\ diff_result = None <=> old_line = new_line
        /\ (Len(old_line) = Len(new_line) /\ old_line # new_line) =>
              diff_result = Some(<<SetMin(Differ(old_line, new_line)),
                                   SetMax(Differ(old_line, new_line))>>)
        /\ Len(old_line) # Len(new_line) =>
              diff_result = Some(<<0, Max(Len(new_line), 1) - 1>>)

\* find_line_diff was called on two rows of one length that differ in their
\* first cell only
C10_Witness ==
    /\ diff_result = Some(<<0, 0>>)
    /\ Len(old_line) = MaxLineLen
    /\ Len(new_line) = MaxLineLen

(***************************************************************************)
(* C1 .. C8: Screen::refresh                                               *)
(***************************************************************************)
\* this step is a call of refresh
RefreshStep == ops' = ops + 1 /\ last'.op = "refresh"

AllClean(s) == \A y \in 1..s.rows : s.dirty_lines[y] = clean

\* C1: a refresh that completes without abort or error leaves current equal,
\* cell for cell, to the pending grid as it was when refresh was called, leaves
\* pending equal to current and leaves the dirty interval of every row clean
C1_Commit ==
    (RefreshStep /\ Completes(last')) =>
        /\ screen'.current_content = screen.pending_content
        /\ screen'.pending_content = screen'.current_content
        /\ AllClean(screen')

C1_RefreshCommits == [][C1_Commit]_vars

\* a refresh completed on a frame that differs from the one displayed
C1_Witness ==
    /\ Completes(last)
    /\ last.written # <<>>
    /\ hist.owed # {}
    /\ AllClean(screen)

\* C2: after a refresh that completes, in a run in which every refresh so far
\* completed without abort or error, every cell of the terminal equals the
\* corresponding cell of the current grid, the rows that are not dirty included
C2_TerminalShowsCurrent ==
    (Completes(last) /\ hist.all_completed) => term.grid = screen.current_content

\* the same, in runs in which no refresh wrote an insert-lines or delete-lines
\* sequence: there the terminal does show the current grid
C2_UnlessScrolled ==
    (Completes(last) /\ hist.all_completed /\ ~hist.scrolled) =>
        term.grid = screen.current_content

\* the dirty rows of s, and those of them the row loop reaches before its n-th
\* processed row
DirtyRows(s) == {y \in 0..(s.rows - 1) : is_dirty(s.dirty_lines[y + 1])}

Processed(s, n) ==
    {y \in DirtyRows(s) : Cardinality({z \in DirtyRows(s) : z < y}) < n}

\* C3: when the input probe reports readable during refresh and the write
\* succeeds, refresh returns Ok, the tokens produced so far are written to the
\* terminal, current and its hashes are as before the call, the buffers are not
\* swapped, and every dirty row not yet processed keeps its dirty interval
C3_Abort ==
    (RefreshStep /\ last'.aborted /\ last'.error # "write") =>
        /\ last'.rc = "Ok"
        /\ last'.written = screen'.buffer
        /\ screen'.current_content = screen.current_content
        /\ screen'.current_line_hashes = screen.current_line_hashes
        /\ screen'.pending_content = screen.pending_content
        /\ \A y \in DirtyRows(screen) \ Processed(screen, last'.polls * screen.check_interval) :
              screen'.dirty_lines[y + 1] = screen.dirty_lines[y + 1]

C4_PartialRefreshIdempotent ==
    (Completes(last) /\ hist.phase = "done" /\ hist.aborts >= 1) =>
        Frame(screen) = hist.expect

\* an abort, then a completing refresh, of a frame that changes the display
C4_Witness ==
    /\ Completes(last)
    /\ hist.phase = "done"
    /\ hist.aborts >= 1
    /\ hist.owed # {}
    /\ last.written # <<>>

C6_DoubleRefreshIsSilent ==
    (last.op = "refresh" /\ last.after_completed) =>
        /\ last.written = <<>>
        /\ screen.buffer = <<>>

\* a second refresh in a row whose hash vectors yield a hunk with shift 0
C6_Witness ==
    /\ last.op = "refresh"
    /\ last.after_completed
    /\ last.scrolls # <<>>
    /\ \A i \in 1..Len(last.scrolls) : last.scrolls[i].shift = 0

\* C7: when the write at the end of refresh fails, refresh returns an error, the
\* buffers are not swapped, and the dirty intervals, the pending hashes and the
\* style cache are as before the call
C7_WriteError ==
    (RefreshStep /\ last'.error = "write") =>
        /\ last'.rc = "Err"
        /\ screen'.current_content = screen.current_content
        /\ screen'.pending_content = screen.pending_content
        /\ screen'.dirty_lines = screen.dirty_lines
        /\ screen'.pending_line_hashes = screen.pending_line_hashes
        /\ screen'.last_emitted_attr = screen.last_emitted_attr
        /\ screen'.last_emitted_fg = screen.last_emitted_fg
        /\ screen'.last_emitted_bg = screen.last_emitted_bg

C7_WriteErrorKeepsState == [][C7_WriteError]_vars

\* C8: after a refresh that fails with a write error every row is marked fully
\* dirty, (0, cols - 1)
C8_WriteErrorMarksAllDirty ==
    (last.op = "refresh" /\ last.error = "write") =>
        \A y \in 1..screen.rows : screen.dirty_lines[y] = full(screen.cols)

(***************************************************************************)
(* C11 .. C13: detect_scrolls                                              *)
(***************************************************************************)
Hunks == ret[2]

\* C11: every hunk detect_scrolls returns has size >= 3 and
\* size + min(size / 8, 2) >= |shift|
C11_HunkHeuristics ==
    ret # NotCalled =>
        \A n \in 1..Len(Hunks) :
            /\ Hunks[n].size >= 3
            /\ Hunks[n].size + Min(Hunks[n].size \div 8, 2) >= Abs(Hunks[n].shift)

\* detect_scrolls returned a hunk of three lines moved by three lines, the
\* farthest the heuristic allows for that size
C11_Witness ==
    /\ ret # NotCalled
    /\ \E n \in 1..Len(Hunks) : Hunks[n].size = 3 /\ Abs(Hunks[n].shift) = 3

\* C12: for every hunk {start, size, shift} and every k in 0..size-1,
\* start + k is an index of new, start + k + shift an index of old, the two
\* hashes there are equal, and they are not 0
C12_HunkSound ==
    ret # NotCalled =>
        \A n \in 1..Len(Hunks) : \A k \in 0..(Hunks[n].size - 1) :
            LET new_i == Hunks[n].start + k
                old_i == new_i + Hunks[n].shift
            IN /\ new_i >= 0 /\ new_i < Len(args.new_hashes)
               /\ old_i >= 0 /\ old_i < Len(args.old_hashes)
               /\ At(args.new_hashes, new_i) = At(args.old_hashes, old_i)
               /\ At(args.new_hashes, new_i) # Zero64

\* detect_scrolls returned a hunk one of whose lines has a hash that occurs
\* twice in old: a line matched by growing a unique match
C12_Witness ==
    /\ ret # NotCalled
    /\ \E n \in 1..Len(Hunks) : \E k \in 0..(Hunks[n].size - 1) :
          Cardinality({i \in 1..Len(args.old_hashes) :
              args.old_hashes[i] = At(args.new_hashes, Hunks[n].start + k)}) = 2

Occurrences(v, h) == Cardinality({i \in 1..Len(v) : v[i] = h})

\* lines start .. start+size-1 of new are a block moved by shift: at least
\* three lines, each with a non-zero hash that occurs once in old and once in
\* new, each found in old shift lines further down, size + min(size/8, 2) >=
\* |shift|, and the line before and the line after the block do not match
\* the old line at the same distance
MatchesAt(old, new_, new_i, shift) ==
    /\ new_i >= 0 /\ new_i < Len(new_)
    /\ new_i + shift >= 0 /\ new_i + shift < Len(old)
    /\ At(new_, new_i) = At(old, new_i + shift)
    /\ At(new_, new_i) # Zero64

Block(old, new_, start, size, shift) ==
    /\ size >= 3
    /\ start + size <= Len(new_)
    /\ \A k \in 0..(size - 1) :
          /\ MatchesAt(old, new_, start + k, shift)
          /\ Occurrences(old, At(new_, start + k)) = 1
          /\ Occurrences(new_, At(new_, start + k)) = 1
    /\ size + Min(size \div 8, 2) >= Abs(shift)
    /\ ~MatchesAt(old, new_, start - 1, shift)
    /\ ~MatchesAt(old, new_, start + size, shift)

Blocks(old, new_) ==
    {b \in [start : 0..(Len(new_) - 1), size : 3..Len(new_),
            shift : (0 - Len(old))..Len(old)] :
        Block(old, new_, b.start, b.size, b.shift)}

\* C13: for every block of new moved by shift, detect_scrolls returns exactly
\* one hunk that overlaps the block, and it has the block's start, size and
\* shift (positive when the lines moved to lower indices); two blocks give
\* two hunks
C13_HunkComplete ==
    ret # NotCalled =>
        \A b \in Blocks(args.old_hashes, args.new_hashes) :
            LET over == {n \in 1..Len(Hunks) :
                            /\ Hunks[n].start < b.start + b.size
                            /\ Hunks[n].start + Hunks[n].size > b.start}
            IN /\ Cardinality(over) = 1
               /\ \A n \in over : Hunks[n] = b

\* detect_scrolls was called on vectors with two blocks, one moved up and one
\* moved down
C13_Witness ==
    /\ ret # NotCalled
    /\ \E b1, b2 \in Blocks(args.old_hashes, args.new_hashes) :
          b1.shift > 0 /\ b2.shift < 0

(***************************************************************************)
(* C14: DirtyRegion::mark                                                  *)
(***************************************************************************)
Marks == (0..MaxMark) \X (0..MaxMark)

\* the interval (a, b) lies within the dirty region r
Covers(r, a, b) == r.first_changed[2] <= a /\ r.last_changed[2] >= b

\* C14: mark(a, b) on a clean region gives (a, b), on a dirty region
\* (first, last) gives (min(first, a), max(last, b)); the result covers the
\* region marked and the interval it had; two marks commute; a mark repeated
\* changes nothing
C14_MarkIsUnion ==
    LET r == screen.dirty_lines[1]
    IN \A m \in Marks :
        /\ r = clean => range(mark(r, m[1], m[2])) = Some(<<m[1], m[2]>>)
        /\ r # clean =>
              range(mark(r, m[1], m[2])) =
                  Some(<<Min(r.first_changed[2], m[1]), Max(r.last_changed[2], m[2])>>)
        /\ Covers(mark(r, m[1], m[2]), m[1], m[2])
        /\ r # clean =>
              Covers(mark(r, m[1], m[2]), r.first_changed[2], r.last_changed[2])
        /\ mark(mark(r, m[1], m[2]), m[1], m[2]) = mark(r, m[1], m[2])
        /\ \A n \in Marks :
              mark(mark(r, m[1], m[2]), n[1], n[2]) = mark(mark(r, n[1], n[2]), m[1], m[2])

\* the region of row 0 has been marked and spans all of columns 0..MaxMark
C14_Witness == range(screen.dirty_lines[1]) = Some(<<0, MaxMark>>)

(***************************************************************************)
(* C18, C19: Screen::move_cursor                                           *)
(***************************************************************************)
MoveDy == args.y - args.cursor_y
MoveDx == args.x - args.cursor_x

\* the sequence the move from (cursor_y, cursor_x) to (y, x) is to write
MoveSequence ==
    IF MoveDy = 0 /\ 0 < Abs(MoveDx) /\ Abs(MoveDx) < 4
    THEN (IF MoveDx > 0 THEN CUF(Abs(MoveDx)) ELSE CUB(Abs(MoveDx)))
    ELSE IF MoveDx = 0 /\ 0 < Abs(MoveDy) /\ Abs(MoveDy) < 4
    THEN (IF MoveDy > 0 THEN CUD(Abs(MoveDy)) ELSE CUU(Abs(MoveDy)))
    ELSE CUP(args.y + 1, args.x + 1)

MoveAsStated ==
    /\ ret = Some("Ok")
    /\ screen.buffer = <<MoveSequence>>
    /\ screen.cursor_y = args.y
    /\ screen.cursor_x = args.x

\* C18: move_cursor from (cy, cx) to (y, x) writes CSI |dx| C or D when
\* dy = 0 and 0 < |dx| < 4, else CSI |dy| B or A when dx = 0 and
\* 0 < |dy| < 4, else CSI (y+1);(x+1) H, and leaves the tracked cursor at (y, x)
C18_MoveCursor == ret # NotCalled => MoveAsStated

\* the same for targets below the largest u16 in both coordinates
C18_MoveCursorBelowMax ==
    (ret # NotCalled /\ args.y < U16_MAX /\ args.x < U16_MAX) => MoveAsStated

\* the total of the bytes of the sequences in the buffer
RECURSIVE BufferBytes(_)
BufferBytes(buffer) ==
    IF buffer = <<>> THEN 0 ELSE ByteLen(Head(buffer)) + BufferBytes(Tail(buffer))

AbsoluteBytes == ByteLen(CUP(args.y + 1, args.x + 1))

\* C19 as stated: for every move with max(|dy|, |dx|) < 4 and dy * dx = 0
\* the bytes written are fewer than those of CSI (y+1);(x+1) H
C19_SmallMoveShorter ==
    (ret # NotCalled /\ Max(Abs(MoveDy), Abs(MoveDx)) < 4 /\ MoveDy * MoveDx = 0) =>
        BufferBytes(screen.buffer) < AbsoluteBytes

\* C19 amended: for every move with 0 < max(|dy|, |dx|) < 4 and dy * dx = 0
\* the bytes written are fewer than those of CSI (y+1);(x+1) H
C19_RelativeShorter ==
    (/\ ret # NotCalled
     /\ 0 < Max(Abs(MoveDy), Abs(MoveDx))
     /\ Max(Abs(MoveDy), Abs(MoveDx)) < 4
     /\ MoveDy * MoveDx = 0) =>
        /\ ret = Some("Ok")
        /\ BufferBytes(screen.buffer) < AbsoluteBytes

\* a move by three columns to the left on one row was made with CSI 3 D
C19_Witness ==
    /\ ret = Some("Ok")
    /\ MoveDy = 0
    /\ MoveDx = 0 - 3
    /\ screen.buffer = <<CUB(3)>>

(***************************************************************************)
(* C15: the dirty intervals a Screen keeps                                 *)
(***************************************************************************)
\* C15: after any drawing operations and refreshes the dirty interval of
\* every row is clean or has first <= last < cols
C15_DirtyIntervalsWellFormed ==
    \A y \in 1..screen.rows :
        \/ screen.dirty_lines[y] = clean
        \/ /\ screen.dirty_lines[y].first_changed[2] <= screen.dirty_lines[y].last_changed[2]
           /\ screen.dirty_lines[y].last_changed[2] < screen.cols

(***************************************************************************)
(* C16, C17: the style cache of refresh                                    *)
(***************************************************************************)
Triple(cell) == <<cell.attr, cell.fg, cell.bg>>

\* the cells of a row written one after the other with the style cache at
\* cache: ESC [ attrs ; fg ; bg m before a cell whose triple is not the cache
RECURSIVE CachedCells(_, _)
CachedCells(cells, cache) ==
    IF cells = <<>> THEN <<>>
    ELSE (IF Triple(Head(cells)) # cache
          THEN <<SGR(style_sequence(Head(cells).attr, Head(cells).fg, Head(cells).bg))>>
          ELSE <<>>)
         \o <<CH(Head(cells).ch)>>
         \o CachedCells(Tail(cells), Triple(Head(cells)))

\* C16: what a refresh puts in the buffer for a row is the cursor position
\* and the cells first..last of the pending row, each preceded by an SGR
\* sequence exactly when its (attr, fg, bg) differs from the triple emitted
\* last, by this refresh or by an earlier one; the triple kept afterwards is
\* that of the last cell written, and no other call changes it
C16_StyleCache ==
    LET cache == <<screen.last_emitted_attr, screen.last_emitted_fg, screen.last_emitted_bg>>
        cache_ == <<screen'.last_emitted_attr, screen'.last_emitted_fg,
                    screen'.last_emitted_bg>>
        row == screen.pending_content[1]
    IN IF RefreshStep
       THEN \/ screen'.buffer = <<>> /\ cache_ = cache
            \/ \E first \in 1..Len(row), last_x \in 1..Len(row) :
                  /\ first <= last_x
                  /\ screen'.buffer = <<CUP(1, first)>>
                                        \o CachedCells(SubSeq(row, first, last_x), cache)
                  /\ cache_ = Triple(row[last_x])
       ELSE cache_ = cache

C16_StyleCachePersists == [][C16_StyleCache]_vars

\* two refreshes: the first wrote a bold red cell after ESC[1;31;49m, the
\* second wrote the cell next to it, bold red as well, with no SGR sequence
C16_Witness ==
    /\ last.op = "refresh"
    /\ last.written = <<CUP(1, 2), CH("a")>>
    /\ term.grid[1] = <<with_style("a", {"BOLD"}, Red, Reset),
                        with_style("a", {"BOLD"}, Red, Reset)>>
    /\ screen.last_emitted_attr = {"BOLD"}
    /\ screen.last_emitted_fg = Red

\* C17: after refreshes that all completed, every cell of the terminal shows
\* exactly the attributes of the corresponding cell of the current grid: an
\* attribute of the style written before that the cell does not have is off
C17_AttributesReplaced ==
    (Completes(last) /\ hist.all_completed) =>
        \A x \in 1..screen.cols :
            term.grid[1][x].attr = screen.current_content[1][x].attr

(***************************************************************************)
(* C20: Erase Character for runs of blank cells                            *)
(***************************************************************************)
\* the number of blank-default cells at the head of cells
BlankPrefix(cells) ==
    IF \A i \in 1..Len(cells) : is_blank(cells[i]) THEN Len(cells)
    ELSE (CHOOSE i \in 1..Len(cells) :
             /\ ~is_blank(cells[i])
             /\ \A j \in 1..(i - 1) : is_blank(cells[j])) - 1

\* the cells of an emission window as C20 has them written: CSI n X for a run
\* of n >= 8 blank-default cells, at most 255 of them at a time, every other
\* cell as its character
RECURSIVE RunLengthCells(_)
RunLengthCells(cells) ==
    IF cells = <<>> THEN <<>>
    ELSE IF BlankPrefix(cells) >= 8
    THEN <<ECH(Min(BlankPrefix(cells), 255))>>
         \o RunLengthCells(SubSeq(cells, Min(BlankPrefix(cells), 255) + 1, Len(cells)))
    ELSE <<CH(Head(cells).ch)>> \o RunLengthCells(Tail(cells))

\* what a refresh of the one row puts in the buffer is the cursor position
\* and the cells first..last of the pending row, written as C20 has them
C20_Emission ==
    RefreshStep =>
        \/ screen'.buffer = <<>>
        \/ /\ Head(screen'.buffer).t = "CUP"
           /\ Head(screen'.buffer).row = 1
           /\ \E last_x \in Head(screen'.buffer).col..screen.cols :
                 Tail(screen'.buffer) =
                     RunLengthCells(SubSeq(screen.pending_content[1],
                                           Head(screen'.buffer).col, last_x))

\* CSI n X stands for the n spaces: a terminal that showed the current row
\* shows, after the bytes of a refresh that completes, the row refreshed
C20_Effect ==
    (RefreshStep /\ Completes(last') /\ term.grid = screen.current_content) =>
        term'.grid = screen'.current_content

\* C20: every CSI n X that refresh emits has 1 <= n <= 255, is emitted
\* exactly when a run of at least 8 blank-default cells starts at the current
\* column inside the emission window, and stands for the n spaces of that
\* run; shorter runs are written as spaces
C20_EraseCharacter == [][C20_Emission /\ C20_Effect]_vars

C20_EraseCharacterEmission == [][C20_Emission]_vars

C20_EraseCharacterEffect == [][C20_Effect]_vars

(***************************************************************************)
(* C21 .. C23: the output buffer                                           *)
(***************************************************************************)
\* this step is a call of a drawing operation or of an operation that sets the
\* drawing state
DrawingStep ==
    /\ ops' > ops
    /\ last'.op \in {"draw", "move_cursor", "print", "addch", "clear", "attron", "attroff", "attrset", "set_fg", "set_bg",
                     "init_pair", "color_pair"}

\* C21: move_cursor, print, addch, mvprint, mvaddch, clear, clrtoeol, clrtobot,
\* attron, attroff, attrset, set_fg, set_bg, init_pair and color_pair leave the
\* output buffer as it was
C21_DrawingQueuesNothing == [][DrawingStep => screen'.buffer = screen.buffer]_vars

\* the cursor-visibility and keyboard-protocol sequences in a byte string
IsQueued(tok) == tok.t \in {"DECTCEM", "KITTY"}

Queued(buffer) == SelectSeq(buffer, IsQueued)

\* this step is a call of cursor_visible or of a keyboard-protocol call
QueueingStep ==
    /\ ops' = ops + 1
    /\ last'.op \in {"cursor_visible", "enable_kitty_keyboard", "disable_kitty_keyboard",
                     "push_kitty_keyboard", "pop_kitty_keyboard"}

\* the sequences queued since the last flush are the ones a refresh that
\* returns Ok wrote, in the order they were queued
C22_Written ==
    (RefreshStep /\ last'.rc = "Ok") => Queued(last'.written) = Queued(screen.buffer)

\* a queueing call changes no grid cell, dirty interval or hash
C22_GridKept ==
    QueueingStep =>
        /\ screen'.pending_content = screen.pending_content
        /\ screen'.current_content = screen.current_content
        /\ screen'.dirty_lines = screen.dirty_lines
        /\ screen'.pending_line_hashes = screen.pending_line_hashes
        /\ screen'.current_line_hashes = screen.current_line_hashes

\* C22: the bytes cursor_visible and the keyboard-protocol calls queue are
\* written to the terminal by the next refresh, in the order queued, and these
\* calls change no grid cell, dirty interval or hash
C22_QueuedBytesWritten == [][C22_Written /\ C22_GridKept]_vars

C22_QueueingKeepsGrid == [][C22_GridKept]_vars

\* C23: when refresh has returned the output buffer is empty, so that a
\* following wnoutrefresh and doupdate write nothing of the frame again
C23_BufferEmptyAfterRefresh ==
    last.op = "refresh" =>
        /\ screen.buffer = <<>>
        /\ doupdate(wnoutrefresh(screen, update_buffer).update_buffer, WriteOk).written
               = doupdate(update_buffer, WriteOk).written

(***************************************************************************)
(* C24 .. C26: the drawing operations                                      *)
(***************************************************************************)
\* the cursor is inside the grid
InRange(s) == s.cursor_y < s.rows /\ s.cursor_x < s.cols

\* the pending cell (y, x) of s
Pending(s, y, x) == s.pending_content[y + 1][x + 1]

\* print(text) with the cursor at (y, x) inside the grid: character i is at
\* pending (y, x + i) in the current style for x + i < cols, every other
\* pending cell and the current grid are kept, the pending hash of row y is 0,
\* the dirty interval of row y covers the written columns, and the cursor is
\* at column min(x + n, cols) of row y
C24_Print ==
    (ops' = ops + 1 /\ last'.op = "print" /\ InRange(screen)) =>
        LET text == args'.text
            n == Len(text)
            y == screen.cursor_y
            x == screen.cursor_x
            written == {c \in 0..(screen.cols - 1) : x <= c /\ c < x + n}
        IN /\ \A c \in written :
                Pending(screen', y, c) = with_style(text[c - x + 1], screen.current_attr,
                                                    screen.current_fg, screen.current_bg)
           /\ \A r \in 0..(screen.rows - 1), c \in 0..(screen.cols - 1) :
                (r # y \/ c \notin written) => Pending(screen', r, c) = Pending(screen, r, c)
           /\ screen'.current_content = screen.current_content
           /\ screen'.pending_line_hashes[y + 1] = Zero64
           /\ \A c \in written :
                /\ range(screen'.dirty_lines[y + 1]) # None
                /\ range(screen'.dirty_lines[y + 1])[2][1] <= c
                /\ c <= range(screen'.dirty_lines[y + 1])[2][2]
           /\ screen'.cursor_x = Min(x + n, screen.cols)
           /\ screen'.cursor_y = y

\* C24: the frame effect of print with the cursor inside the grid
C24_PrintEffect == [][C24_Print]_vars

\* the same for text of one-byte characters only
C24_PrintEffectAscii ==
    [][(last'.op = "print" /\ str_len(args'.text) # Len(args'.text)) \/ C24_Print]_vars

\* this step is a call of a drawing operation
DrawStep == ops' > ops /\ last'.op \in {"draw", "move_cursor", "print", "addch", "clear"}

\* the grids are rows x cols
GridShape(s) ==
    /\ DOMAIN s.pending_content = 1..s.rows
    /\ DOMAIN s.current_content = 1..s.rows
    /\ \A y \in 1..s.rows :
         DOMAIN s.pending_content[y] = 1..s.cols /\ DOMAIN s.current_content[y] = 1..s.cols

\* a drawing operation returns Ok and leaves the grids rows x cols; print and
\* addch with the cursor outside the grid change no pending cell, dirty
\* interval or pending hash
C25_Draw ==
    DrawStep =>
        /\ last'.rc = "Ok"
        /\ GridShape(screen')
        /\ (~InRange(screen) /\ last'.op \in {"print", "addch"}) =>
              /\ screen'.pending_content = screen.pending_content
              /\ screen'.dirty_lines = screen.dirty_lines
              /\ screen'.pending_line_hashes = screen.pending_line_hashes

\* C25: for any cursor position, outside the grid as well, every drawing
\* operation returns success and touches no cell outside the grid, and print
\* and addch with the cursor out of range change nothing of the pending frame
C25_OutOfRangeCursor == [][C25_Draw]_vars

\* the same where no overflow checks are compiled in
C25_OutOfRangeCursorUnchecked == [][last'.rc = "panic" \/ C25_Draw]_vars

\* clear: every pending cell blank, every row dirty over (0, cols - 1), every
\* pending hash 0, the cursor at (0, 0); the current grid, the current hashes
\* and the output buffer as they were
C26_Clear ==
    (ops' = ops + 1 /\ last'.op = "clear") =>
        /\ \A y \in 0..(screen.rows - 1), x \in 0..(screen.cols - 1) :
             Pending(screen', y, x) = blank
        /\ \A y \in 1..screen.rows :
             /\ range(screen'.dirty_lines[y]) = Some(<<0, screen.cols - 1>>)
             /\ screen'.pending_line_hashes[y] = Zero64
        /\ screen'.cursor_y = 0
        /\ screen'.cursor_x = 0
        /\ screen'.current_content = screen.current_content
        /\ screen'.current_line_hashes = screen.current_line_hashes
        /\ screen'.buffer = screen.buffer

\* C26: the frame effect of clear
C26_ClearEffect == [][C26_Clear]_vars

\* clear was called on a painted frame whose rows had their hashes cached, with
\* bytes in the output buffer and the cursor away from the origin
C26_Witness ==
    /\ last.op = "clear"
    /\ ops = 1
    /\ screen.buffer # <<>>
    /\ \E y \in 1..screen.rows : screen.current_line_hashes[y] # Zero64
    /\ \E y \in 1..screen.rows, x \in 1..screen.cols : screen.current_content[y][x] # blank
    /\ \A y \in 1..screen.rows :
         /\ screen.pending_line_hashes[y] = Zero64
         /\ range(screen.dirty_lines[y]) = Some(<<0, screen.cols - 1>>)

(***************************************************************************)
(* C27, C28: the drawing state                                             *)
(***************************************************************************)
\* init_pair(id, fg, bg) registers (fg, bg) under id, in place of what was
\* registered under it, and changes nothing else
InitPairRegisters ==
    (ops' = ops + 1 /\ last'.op = "init_pair") =>
        /\ DOMAIN screen'.color_pairs = DOMAIN screen.color_pairs \cup {args'.pair}
        /\ screen'.color_pairs[args'.pair] = [fg |-> args'.fg, bg |-> args'.bg]
        /\ \A p \in DOMAIN screen.color_pairs :
             p # args'.pair => screen'.color_pairs[p] = screen.color_pairs[p]
        /\ [screen' EXCEPT !.color_pairs = screen.color_pairs] = screen

\* color_pair(id): an error and no change for an id not registered; for a
\* registered id the current colours become those registered under it
ColorPairSelects ==
    (ops' = ops + 1 /\ last'.op = "color_pair") =>
        IF args'.pair \in DOMAIN screen.color_pairs
        THEN /\ ret' = <<"Ok">>
             /\ screen' = [screen EXCEPT !.current_fg = screen.color_pairs[args'.pair].fg,
                                         !.current_bg = screen.color_pairs[args'.pair].bg]
        ELSE /\ ret' = <<"Err", "InvalidColorPair", args'.pair>>
             /\ screen' = screen

\* C27: color_pair(id) returns InvalidColorPair(id) and changes nothing when id
\* was never registered; otherwise it sets the current foreground and
\* background to the pair most recently registered under id
C27_ColorPair == [][InitPairRegisters /\ ColorPairSelects]_vars

\* color_pair returned Ok for the one id registered, as the third call: the
\* current colours are the pair registered under it
C27_Witness ==
    /\ ops = 3
    /\ last.op = "color_pair"
    /\ ret = <<"Ok">>
    /\ DOMAIN screen.color_pairs = {args.pair}
    /\ screen.current_fg = Red
    /\ screen.current_bg = Red

\* the attribute set a step must leave, given the one before it
AttrAfter(op, before, attr) ==
    CASE op = "attron" -> {a \in AttrNames : a \in before \/ a \in attr}
      [] op = "attroff" -> {a \in AttrNames : a \in before /\ a \notin attr}
      [] op = "attrset" -> attr

\* attron adds the attributes given, attroff removes exactly them, attrset
\* replaces the set; nothing else changes
AttrStep ==
    (ops' = ops + 1 /\ last'.op \in {"attron", "attroff", "attrset"}) =>
        screen' = [screen EXCEPT
                     !.current_attr = AttrAfter(last'.op, screen.current_attr, args'.attr)]

\* set_fg and set_bg replace one colour; nothing else changes
ColorStep ==
    /\ (ops' = ops + 1 /\ last'.op = "set_fg") =>
          screen' = [screen EXCEPT !.current_fg = args'.color]
    /\ (ops' = ops + 1 /\ last'.op = "set_bg") =>
          screen' = [screen EXCEPT !.current_bg = args'.color]

\* C28: attron(s) is the union with s, attroff(s) removes exactly s, attrset(s)
\* replaces the set, set_fg and set_bg replace one colour, and each changes
\* only the drawing state
C28_DrawingState == [][AttrStep /\ ColorStep]_vars

\* attroff(BOLD) has left UNDERLINE set, as in test_attributes
C28_Witness ==
    /\ last.op = "attroff"
    /\ args.attr = {"BOLD"}
    /\ screen.current_attr = {"UNDERLINE"}

(***************************************************************************)
(* C29, C30: the cache of line hashes                                      *)
(***************************************************************************)
\* a cached hash is 0 or the hash of the row it is cached for
Coherent(hashes, content) ==
    \A y \in DOMAIN hashes : hashes[y] = Zero64 \/ hashes[y] = hash_line(content[y])

HashesCoherent ==
    /\ Coherent(screen.pending_line_hashes, screen.pending_content)
    /\ Coherent(screen.current_line_hashes, screen.current_content)

\* a drawing operation zeroes the pending hash of every row it changes
DrawInvalidates ==
    (ops' = ops + 1 /\ last'.op = "draw") =>
        \A y \in 1..screen.rows :
            screen'.pending_content[y] # screen.pending_content[y] =>
                screen'.pending_line_hashes[y] = Zero64

\* the pending hashes as scroll detection must see them: those of the dirty
\* rows computed from the rows
Rehashed(s) ==
    [y \in 1..s.rows |->
        IF range(s.dirty_lines[y]) # None /\ s.pending_line_hashes[y] = Zero64
        THEN hash_line(s.pending_content[y])
        ELSE s.pending_line_hashes[y]]

\* refresh detects scrolls on the recomputed hashes, and when it completes
\* pending and current hashes are equal
RefreshRehashes ==
    RefreshStep =>
        /\ last'.scrolls = detect_scrolls(screen.current_line_hashes, Rehashed(screen))
        /\ \A y \in 1..screen.rows :
             range(screen.dirty_lines[y]) # None =>
                 Rehashed(screen)[y] = hash_line(screen.pending_content[y])
        /\ Completes(last') =>
              screen'.pending_line_hashes = screen'.current_line_hashes

\* C29: every cached line hash is 0 or the hash of its row; a drawing
\* operation that changes a pending row zeroes its hash; refresh recomputes
\* the zero hashes of dirty rows before it detects scrolls; after a refresh
\* that completed the pending hashes equal the current hashes
C29_HashCoherence == []HashesCoherent /\ [][DrawInvalidates /\ RefreshRehashes]_vars

\* a refresh completed after a row was redrawn: the hash of the row is cached,
\* not 0, for both grids
C29_Witness ==
    /\ Completes(last)
    /\ last.written # <<>>
    /\ ops >= 2
    /\ \E y \in 1..screen.rows :
         /\ screen.current_line_hashes[y] # Zero64
         /\ screen.current_line_hashes[y] = hash_line(screen.current_content[y])
         /\ screen.pending_line_hashes[y] = screen.current_line_hashes[y]

\* C30 as stated: after a refresh that completes the current hashes are the
\* pending hashes as they were when refresh was called
C30_CurrentIsPendingBefore ==
    [][(RefreshStep /\ Completes(last')) =>
          screen'.current_line_hashes = screen.pending_line_hashes]_vars

\* C30: after a refresh that completes the current hashes are the pending
\* hashes as they were when refresh was called, with the zero entries of the
\* dirty rows recomputed from the pending rows
C30_CurrentIsRehashedPending ==
    [][(RefreshStep /\ Completes(last')) =>
          screen'.current_line_hashes = Rehashed(screen)]_vars

\* the first refresh after a drawing operation completed and had cells to
\* send: the rows of these cells have their hash, not 0, as current hash
C30_Witness ==
    /\ Completes(last)
    /\ hist.phase = "done"
    /\ hist.aborts = 0
    /\ hist.owed # {}
    /\ \A c \in hist.owed :
         /\ screen.current_line_hashes[c[1] + 1] # Zero64
         /\ screen.current_line_hashes[c[1] + 1] = hash_line(screen.current_content[c[1] + 1])

(***************************************************************************)
(* C31 .. C33: the rows a refresh writes                                   *)
(***************************************************************************)
\* the columns of row y in both the diff window and the dirty interval:
\* <<first, last>>, empty when first > last
Window(s, y) ==
    LET dirty == range(s.dirty_lines[y + 1])
        diff == find_line_diff(At(s.current_content, y), At(s.pending_content, y))
    IN IF dirty = None \/ diff = None THEN <<1, 0>>
       ELSE <<Max(diff[2][1], dirty[2][1]), Min(diff[2][2], dirty[2][2])>>

\* the dirty rows a refresh step went through before it returned
RowsDone ==
    IF last'.aborted \/ last'.error = "poll"
    THEN Processed(screen, last'.polls * screen.check_interval)
    ELSE DirtyRows(screen)

\* for the rows of P in ascending order from y on: the cursor positionings to
\* the first column of each window (chars = FALSE) or the characters of the
\* cells of each window (chars = TRUE)
RECURSIVE WindowTokens(_, _, _, _)
WindowTokens(s, P, y, chars) ==
    IF y >= s.rows THEN <<>>
    ELSE LET w == Window(s, y)
         IN (IF y \notin P \/ w[1] > w[2] THEN <<>>
             ELSE IF chars
             THEN [i \in 1..(w[2] - w[1] + 1) |-> CH(At(At(s.pending_content, y), w[1] + i - 1).ch)]
             ELSE <<CUP(y + 1, w[1] + 1)>>)
            \o WindowTokens(s, P, y + 1, chars)

IsCUP(tok) == tok.t = "CUP"

IsCH(tok) == tok.t = "CH"

\* what a refresh step leaves in the buffer after the scroll sequences: for
\* each dirty row it went through whose window is not empty, in order, one
\* cursor positioning to the window's first column and then the characters of
\* the window, with style sequences among them and nothing else; the rows it
\* went through are clean
C31_Rows ==
    RefreshStep =>
        LET scrolled == Len(scroll_sequences(last'.scrolls))
            body == SubSeq(screen'.buffer, scrolled + 1, Len(screen'.buffer))
        IN /\ SelectSeq(body, IsCUP) = WindowTokens(screen, RowsDone, 0, FALSE)
           /\ SelectSeq(body, IsCH) = WindowTokens(screen, RowsDone, 0, TRUE)
           /\ body # <<>> => IsCUP(body[1])
           /\ \A i \in 1..Len(body) : body[i].t \in {"CUP", "CH", "SGR"}
           /\ \A y \in RowsDone : screen'.dirty_lines[y + 1] = clean

\* C31: for each dirty row refresh emits bytes only for the columns in both
\* the diff window and the dirty interval, preceded by one cursor positioning
\* to the first of them; a dirty row with no such column emits nothing and
\* becomes clean; rows that are not dirty emit nothing
C31_WindowEmission == [][C31_Rows]_vars

\* the first refresh of a frame had one cell to send and wrote a cursor
\* positioning and the character, nothing else
C31_Witness ==
    /\ Completes(last)
    /\ hist.aborts = 0
    /\ Cardinality(hist.owed) = 1
    /\ Len(last.written) = 2
    /\ IsCUP(last.written[1])
    /\ IsCH(last.written[2])

\* a refresh that aborts has gone through a positive multiple of
\* check_interval dirty rows, one probe per check_interval rows, and
\* hold_refresh is not in effect
C32_AbortPoint ==
    (RefreshStep /\ last'.aborted) =>
        LET n == Cardinality(DirtyRows(screen) \ DirtyRows(screen'))
        IN /\ n > 0
           /\ n % screen.check_interval = 0
           /\ n = last'.polls * screen.check_interval
           /\ ~screen.fifo_hold

\* check_interval is at least 1; without readable input no refresh aborts;
\* under hold_refresh no refresh aborts whatever the probe would report; with
\* hold_refresh not in effect a refresh aborts when input is readable at its
\* first probe
C32_Probe ==
    /\ screen.check_interval >= 1
    /\ ~refresh(screen, NoInput, WriteOk).aborted
    /\ screen.fifo_hold =>
          \A at \in 1..screen.rows :
              ~refresh(screen, [at |-> at, kind |-> "readable"], WriteOk).aborted
    /\ (~screen.fifo_hold /\ Cardinality(DirtyRows(screen)) >= screen.check_interval) =>
          refresh(screen, [at |-> 1, kind |-> "readable"], WriteOk).aborted

\* C32: a refresh aborts only where the number of dirty rows it has processed
\* is a positive multiple of check_interval and the probe reports readable;
\* check_interval is at least 1; no refresh aborts while hold_refresh is in
\* effect, and release_refresh restores aborting
C32_AbortPoints == []C32_Probe /\ [][C32_AbortPoint]_vars

\* a refresh aborted after two rows, check_interval having been set to 2
C32_Witness ==
    /\ last.op = "refresh"
    /\ last.aborted
    /\ last.polls = 1
    /\ screen.check_interval = 2
    /\ ~screen.fifo_hold

\* the cells whose pending content differs from the current content
Changed(s) ==
    {c \in (0..(s.rows - 1)) \X (0..(s.cols - 1)) :
        At(At(s.pending_content, c[1]), c[2]) # At(At(s.current_content, c[1]), c[2])}

\* every changed cell lies inside the dirty interval of its row
Covered(s) ==
    \A c \in Changed(s) :
        /\ range(s.dirty_lines[c[1] + 1]) # None
        /\ range(s.dirty_lines[c[1] + 1])[2][1] <= c[2]
        /\ c[2] <= range(s.dirty_lines[c[1] + 1])[2][2]

\* C33: from a commit on, as long as no refresh aborts or fails, every cell
\* whose pending content differs from current lies inside the dirty interval
\* of its row, whatever is drawn: it is so at the start and after every refresh
\* that completes, and every drawing operation keeps it so
C33_ChangedCellsDirty ==
    /\ []((last.op = "none" \/ Completes(last)) => Covered(screen))
    /\ [][(Covered(screen) /\ ops' = ops + 1 /\ last'.op = "draw") => Covered(screen')]_vars

\* drawing after a commit, no refresh having aborted or failed: three cells or
\* more differ from current, all of them inside the dirty intervals
C33_Witness ==
    /\ ops = 3
    /\ last.op = "draw"
    /\ hist.all_completed
    /\ Cardinality(Changed(screen)) >= 3
    /\ Covered(screen)

(***************************************************************************)
(* C34: the scroll sequence of a hunk realises the hunk                    *)
(***************************************************************************)
\* the terminal T after the cursor positioning and the insert/delete-lines
\* sequence that refresh emits for the one hunk h
AfterHunk(T, h) == ApplyTokens(T, scroll_sequences(<<h>>))

\* rows h.start .. h.start + h.size - 1 of T hold what rows
\* h.start + h.shift .. h.start + h.shift + h.size - 1 of T0 held
Realises(T0, T, h) ==
    \A k \in 0..(h.size - 1) :
        T.grid[h.start + k + 1] = T0.grid[h.start + h.shift + k + 1]

C34_Emission ==
    (ops' = ops + 1 /\ Completes(last')) =>
        \A i \in 1..Len(last'.scrolls) :
            last'.scrolls[i].shift # 0 =>
                Realises(term, AfterHunk(term, last'.scrolls[i]), last'.scrolls[i])

\* C34: for every hunk with a non-zero shift that a completing refresh detects, a terminal
\* that applies the cursor positioning and the delete-lines (shift > 0) or
\* insert-lines (shift < 0) sequence emitted for the hunk holds, in rows
\* start .. start+size-1, what rows start+shift .. start+shift+size-1 held
\* before the sequence.
C34_ScrollRealisesHunk == [][C34_Emission]_vars

(***************************************************************************)
(* C35: the scroll sequences of a frame are sent once                      *)
(***************************************************************************)
IsScroll(tok) == tok.t \in {"IL", "DL"}

\* the insert-lines and delete-lines sequences among toks, in order
ScrollsIn(toks) == SelectSeq(toks, IsScroll)

\* the refresh that resumes the frame: the next call on the Screen is refresh,
\* no input is pending and the write succeeds
Resumed == refresh(screen, NoInput, WriteOk)

\* C35: when a refresh that wrote insert-lines or delete-lines sequences
\* aborted on the input probe, the refresh that resumes the frame, with no
\* drawing call in between, writes no insert-lines or delete-lines sequence.
C35_ScrollsSentOnce ==
    (last.op = "refresh" /\ last.rc = "Ok" /\ last.aborted
        /\ ScrollsIn(last.written) # <<>>) =>
        ScrollsIn(Resumed.written) = <<>>

\* C35 read the other way: the resuming refresh writes the scroll sequences of
\* the aborted refresh again, all of them and in the same order
C35_ScrollsSentAgain ==
    (last.op = "refresh" /\ last.rc = "Ok" /\ last.aborted) =>
        ScrollsIn(Resumed.written) = ScrollsIn(last.written)

(***************************************************************************)
(* C36: the hunks of detect_scrolls are ordered, disjoint and maximal      *)
(***************************************************************************)
\* old_num of detect_scrolls when step 3 starts: for each line of new the old
\* line it was matched with by steps 1 and 2, or None
OldNum(old_hashes, new_hashes) ==
    GrowMatches([new_i \in 0..(Len(new_hashes) - 1) |->
                    UniqueMatch(old_hashes, new_hashes, new_i)],
                old_hashes, new_hashes, 0)

\* line new_i of new is matched, and with an old line shift lines further down
MatchedWith(old_num, new_i, shift) ==
    /\ new_i \in DOMAIN old_num
    /\ old_num[new_i] # None
    /\ old_num[new_i][2] - new_i = shift

\* C36: the hunks detect_scrolls returns are in strictly ascending order of
\* start, any two of them cover disjoint ranges of lines of new, and each is
\* maximal: the line just before a hunk and the line just after it, where
\* there is one and it is matched, is matched with a different shift.
C36_HunksOrderedDisjointMaximal ==
    ret # NotCalled =>
        LET old_num == OldNum(args.old_hashes, args.new_hashes)
        IN /\ \A m, n \in 1..Len(Hunks) :
                 m < n => /\ Hunks[m].start < Hunks[n].start
                          /\ Hunks[m].start + Hunks[m].size <= Hunks[n].start
           /\ \A n \in 1..Len(Hunks) :
                 /\ ~MatchedWith(old_num, Hunks[n].start - 1, Hunks[n].shift)
                 /\ ~MatchedWith(old_num, Hunks[n].start + Hunks[n].size, Hunks[n].shift)

\* detect_scrolls returned two hunks with different shifts of which the
\* second starts at the line after the first: the line after the first hunk
\* and the line before the second are matched
C36_Witness ==
    /\ ret # NotCalled
    /\ Len(Hunks) = 2
    /\ Hunks[1].start + Hunks[1].size = Hunks[2].start
    /\ Hunks[1].shift # Hunks[2].shift
    /\ LET old_num == OldNum(args.old_hashes, args.new_hashes)
       IN /\ old_num[Hunks[2].start] # None
          /\ old_num[Hunks[2].start - 1] # None

(***************************************************************************)
(* Backend::init and Backend::cleanup (backend.rs:27-117)                  *)
(***************************************************************************)
Backend_new == [original_termios |-> None, initialized |-> FALSE]

\* what fails during a call: nothing, tcgetattr, tcsetattr or the flush of stdout
Failures == {"none", "tcgetattr", "tcsetattr", "flush"}

\* the terminal after stdout delivered the first `sent` of the sequences seqs,
\* each a pair of a tty field and its value
RECURSIVE Deliver(_, _, _)
Deliver(t, seqs, sent) ==
    IF sent = 0 \/ seqs = <<>> THEN t
    ELSE Deliver([t EXCEPT ![Head(seqs)[1]] = Head(seqs)[2]], Tail(seqs), sent - 1)

enable_raw_mode(b, t, fails) ==
    IF ~t.isatty THEN [backend |-> b, tty |-> t, rc |-> "Ok"]
    ELSE IF fails = "tcgetattr" THEN [backend |-> b, tty |-> t, rc |-> "Io"]
    ELSE LET b1 == [b EXCEPT !.original_termios = Some(t.raw)]
         IN IF fails = "tcsetattr" THEN [backend |-> b1, tty |-> t, rc |-> "Io"]
            ELSE [backend |-> b1, tty |-> [t EXCEPT !.raw = TRUE], rc |-> "Ok"]

disable_raw_mode(b, t, fails) ==
    IF b.original_termios # None
    THEN IF fails = "tcsetattr" THEN [tty |-> t, rc |-> "Io"]
         ELSE [tty |-> [t EXCEPT !.raw = b.original_termios[2]], rc |-> "Ok"]
    ELSE [tty |-> t, rc |-> "Ok"]

\* Backend::init on the cell BACKEND; a flush that fails has delivered `sent`
\* of the sequences printed
backend_init(cell, t, fails, sent) ==
    LET b == IF cell = None THEN Backend_new ELSE cell[2]
    IN IF b.initialized
       THEN [backend |-> Some(b), tty |-> t, rc |-> "AlreadyInitialized"]
       ELSE LET e == enable_raw_mode(b, t, fails)
                b1 == [e.backend EXCEPT !.initialized = TRUE]
                printed == <<<<"alternate", TRUE>>, <<"cursor", FALSE>>>>
            IN IF e.rc # "Ok"
               THEN [backend |-> Some(e.backend), tty |-> e.tty, rc |-> e.rc]
               ELSE IF fails = "flush"
               THEN [backend |-> Some(b1), tty |-> Deliver(e.tty, printed, sent), rc |-> "Io"]
               ELSE [backend |-> Some(b1), tty |-> Deliver(e.tty, printed, 2), rc |-> "Ok"]

backend_cleanup(cell, t, fails, sent) ==
    IF cell = None THEN [backend |-> cell, tty |-> t, rc |-> "NotInitialized"]
    ELSE LET b == cell[2]
             printed == <<<<"cursor", TRUE>>, <<"alternate", FALSE>>>>
             d == disable_raw_mode(b, Deliver(t, printed, 2), fails)
         IN IF ~b.initialized THEN [backend |-> cell, tty |-> t, rc |-> "Ok"]
            ELSE IF fails = "flush"
            THEN [backend |-> cell, tty |-> Deliver(t, printed, sent), rc |-> "Io"]
            ELSE IF d.rc # "Ok" THEN [backend |-> cell, tty |-> d.tty, rc |-> d.rc]
            ELSE [backend |-> Some([b EXCEPT !.initialized = FALSE]), tty |-> d.tty,
                  rc |-> "Ok"]

\* a call on Backend returned r; hist counts the calls of init
BackendCall(op, r) ==
    /\ ops < MaxCalls
    /\ ops' = ops + 1
    /\ backend' = r.backend
    /\ tty' = r.tty
    /\ last' = [op |-> op, rc |-> r.rc, before |-> backend]
    /\ hist' = IF op = "init" THEN hist + 1 ELSE hist
    /\ UNCHANGED <<screen, term, old_line, new_line, diff_result, hash_result, args, ret,
                    update_buffer, panel_stack, panels, window>>

CallBackendInit ==
    \E fails \in Failures, sent \in 0..1 : BackendCall("init", backend_init(backend, tty, fails, sent))

CallBackendCleanup ==
    \E fails \in Failures, sent \in 0..1 :
        BackendCall("cleanup", backend_cleanup(backend, tty, fails, sent))

\* the process starts: BACKEND is unset, stdin is a terminal or is not
InitBackend ==
    /\ screen = None
    /\ term = None
    /\ last = [op |-> "none", rc |-> "Ok", before |-> None]
    /\ hist = 0
    /\ ops = 0
    /\ old_line = <<>>
    /\ new_line = <<>>
    /\ diff_result = NotCalled
    /\ hash_result = NotCalled
    /\ args = NotCalled
    /\ ret = NotCalled
    /\ update_buffer = <<>>
    /\ backend = None
    /\ \E isatty \in BOOLEAN : tty = Tty(isatty)
    /\ panel_stack = None
    /\ panels = <<>>
    /\ window = None

NextBackend == CallBackendInit \/ CallBackendCleanup

SpecBackend == InitBackend /\ [][NextBackend]_vars

(***************************************************************************)
(* C37: Backend initialisation as a two-state machine                      *)
(***************************************************************************)
Initialised(cell) == cell # None /\ cell[2].initialized

\* init while initialised returns AlreadyInitialized and changes nothing;
\* init while not initialised that returns Ok makes it initialised, and never
\* returns AlreadyInitialized; cleanup while initialised that returns Ok makes
\* it not initialised; cleanup before any init returns NotInitialized
C37_TwoStates ==
    /\ (last.op = "init" /\ Initialised(last.before)) =>
           (last.rc = "AlreadyInitialized" /\ backend = last.before)
    /\ (last.op = "init" /\ ~Initialised(last.before)) =>
           /\ last.rc # "AlreadyInitialized"
           /\ last.rc = "Ok" => Initialised(backend)
    /\ (last.op = "cleanup" /\ Initialised(last.before) /\ last.rc = "Ok") =>
           ~Initialised(backend)
    /\ (last.op = "cleanup" /\ hist = 0) =>
           (last.rc = "NotInitialized" /\ backend = None)

\* C37: whenever init, called while the backend is not initialised, returns
\* an error, the backend is left not initialised (with C37_TwoStates: init
\* and cleanup move the backend between two states, and a failed init leaves
\* it where it was).
C37_InitErrorLeavesUninitialised ==
    (last.op = "init" /\ ~Initialised(last.before) /\ last.rc # "Ok") =>
        ~Initialised(backend)

(***************************************************************************)
(* Panel (panel.rs): PANEL_STACK and the panels registered in it           *)
(***************************************************************************)
\* the Vec behind PANEL_STACK, created empty by get_or_init
Stack(cell) == IF cell = None THEN <<>> ELSE cell[2]

\* guard.iter().position(|&id| id == panel_id): the first index, 1-based, or None
position(stack, panel_id) ==
    IF \E i \in 1..Len(stack) : stack[i] = panel_id
    THEN Some(CHOOSE i \in 1..Len(stack) :
                 stack[i] = panel_id /\ \A j \in 1..(i - 1) : stack[j] # panel_id)
    ELSE None

\* Vec::remove
remove(stack, pos) == SubSeq(stack, 1, pos - 1) \o SubSeq(stack, pos + 1, Len(stack))

register_panel(cell) ==
    LET id == Len(Stack(cell))
    IN [panel_stack |-> Some(Append(Stack(cell), id)), id |-> id]

Panel_new(cell) ==
    [panel_stack |-> register_panel(cell).panel_stack,
     panel |-> [panel_id |-> register_panel(cell).id, hidden |-> FALSE]]

Panel_top(cell, panel) ==
    LET pos == position(Stack(cell), panel.panel_id)
    IN IF pos # None
       THEN Some(Append(remove(Stack(cell), pos[2]), panel.panel_id))
       ELSE Some(Stack(cell))

Panel_bottom(cell, panel) ==
    LET pos == position(Stack(cell), panel.panel_id)
    IN IF pos # None
       THEN Some(<<panel.panel_id>> \o remove(Stack(cell), pos[2]))
       ELSE Some(Stack(cell))

Panel_drop(cell, panel) ==
    LET pos == position(Stack(cell), panel.panel_id)
    IN IF pos # None
       THEN Some(remove(Stack(cell), pos[2]))
       ELSE Some(Stack(cell))

\* the panels a program holds at a time
MaxPanels == 3

\* a call on panel number i of the program's panels left the stack as cell
\* and the program with the panels held; hist counts the panels dropped
PanelCall(op, i, cell, held) ==
    /\ ops < MaxCalls
    /\ ops' = ops + 1
    /\ panel_stack' = cell
    /\ panels' = held
    /\ last' = [op |-> op, panel |-> i, before |-> Stack(panel_stack), held |-> panels]
    /\ hist' = IF op = "drop" THEN hist + 1 ELSE hist
    /\ UNCHANGED <<screen, term, old_line, new_line, diff_result, hash_result, args,
                    ret, update_buffer, backend, tty, window>>

CallPanelNew ==
    /\ Len(panels) < MaxPanels
    /\ PanelCall("new", Len(panels) + 1, Panel_new(panel_stack).panel_stack,
                 Append(panels, Panel_new(panel_stack).panel))

CallPanelTop ==
    \E i \in 1..Len(panels) : PanelCall("top", i, Panel_top(panel_stack, panels[i]), panels)

CallPanelBottom ==
    \E i \in 1..Len(panels) : PanelCall("bottom", i, Panel_bottom(panel_stack, panels[i]), panels)

CallPanelDrop ==
    \E i \in 1..Len(panels) :
        PanelCall("drop", i, Panel_drop(panel_stack, panels[i]), remove(panels, i))

\* the process starts: PANEL_STACK is unset and the program holds no panel
InitPanel ==
    /\ screen = None
    /\ term = None
    /\ last = [op |-> "none", panel |-> 0, before |-> <<>>, held |-> <<>>]
    /\ hist = 0
    /\ ops = 0
    /\ old_line = <<>>
    /\ new_line = <<>>
    /\ diff_result = NotCalled
    /\ hash_result = NotCalled
    /\ args = NotCalled
    /\ ret = NotCalled
    /\ update_buffer = <<>>
    /\ NoObjects

NextPanel == CallPanelNew \/ CallPanelTop \/ CallPanelBottom \/ CallPanelDrop

SpecPanel == InitPanel /\ [][NextPanel]_vars

(***************************************************************************)
(* C38: the ids of the panel stack                                         *)
(***************************************************************************)
\* the number of entries of stack that hold id
Entries(stack, id) == Cardinality({i \in 1..Len(stack) : stack[i] = id})

\* C38: after any sequence of Panel::new, drop, top and bottom the ids in
\* PANEL_STACK are pairwise distinct and the id of each panel the program
\* holds occurs in it exactly once.
C38_StackIdsDistinct ==
    /\ \A i, j \in 1..Len(Stack(panel_stack)) :
           Stack(panel_stack)[i] = Stack(panel_stack)[j] => i = j
    /\ \A p \in 1..Len(panels) : Entries(Stack(panel_stack), panels[p].panel_id) = 1

\* C38 for the runs in which the program has dropped no panel
C38_WithoutDrop ==
    hist = 0 =>
        /\ \A i, j \in 1..Len(Stack(panel_stack)) :
               Stack(panel_stack)[i] = Stack(panel_stack)[j] => i = j
        /\ \A p \in 1..Len(panels) : Entries(Stack(panel_stack), panels[p].panel_id) = 1

(***************************************************************************)
(* Window (window.rs): the style the window keeps and the style it emits   *)
(***************************************************************************)
Window_new(height, width, y, x) ==
    [height |-> height, width |-> width, begin_y |-> y, begin_x |-> x,
     cursor_x |-> 0, cursor_y |-> 0,
     current_attr |-> NORMAL, current_fg |-> Reset, current_bg |-> Reset,
     buffer |-> <<>>, scroll_enabled |-> FALSE,
     last_emitted_attr |-> NORMAL, last_emitted_fg |-> Reset, last_emitted_bg |-> Reset]

Window_apply_style(w) ==
    LET style_changed == \/ w.current_attr # w.last_emitted_attr
                         \/ w.current_fg # w.last_emitted_fg
                         \/ w.current_bg # w.last_emitted_bg
        attr_changed == w.current_attr # w.last_emitted_attr
        style_sequence_buf ==
            (IF attr_changed /\ w.last_emitted_attr # NORMAL THEN <<0>> ELSE <<>>)
            \o (IF attr_changed THEN AttrCodes(w.current_attr, 1) ELSE <<>>)
            \o (IF w.current_fg # w.last_emitted_fg
                THEN write_ansi_fg(w.current_fg) ELSE <<>>)
            \o (IF w.current_bg # w.last_emitted_bg
                THEN write_ansi_bg(w.current_bg) ELSE <<>>)
    IN IF ~style_changed THEN w
       ELSE [w EXCEPT !.buffer = IF style_sequence_buf # <<>>
                                 THEN Append(@, SGR(style_sequence_buf)) ELSE @,
                      !.last_emitted_attr = w.current_attr,
                      !.last_emitted_fg = w.current_fg,
                      !.last_emitted_bg = w.current_bg]

\* the characters of text, each one byte, as tokens
CharTokens(text) == [i \in 1..Len(text) |-> CH(text[i])]

Window_print(w, text) ==
    LET remaining == w.width - w.cursor_x
        text_to_print == IF Len(text) > remaining THEN SubSeq(text, 1, remaining) ELSE text
        styled == Window_apply_style(w)
    IN IF Len(text_to_print) >= 8 /\ \A i \in 1..Len(text_to_print) : text_to_print[i] = " "
       THEN [w EXCEPT !.buffer = Append(@, ECH(Len(text_to_print))),
                      !.cursor_x = @ + Len(text_to_print)]
       ELSE [styled EXCEPT !.buffer = @ \o CharTokens(text_to_print),
                           !.cursor_x = @ + Len(text_to_print)]

Window_addch(w, ch) ==
    IF w.cursor_x >= w.width THEN w
    ELSE [Window_apply_style(w) EXCEPT !.buffer = Append(@, CH(ch)), !.cursor_x = @ + 1]

Window_attron(w, attr) == [w EXCEPT !.current_attr = @ \cup attr]

Window_attroff(w, attr) == [w EXCEPT !.current_attr = @ \ attr]

Window_set_fg(w, color) == [w EXCEPT !.current_fg = color]

Window_set_bg(w, color) == [w EXCEPT !.current_bg = color]

\* Window::refresh: write_all and flush, then buffer.clear(); a write that
\* fails after `sent` tokens returns the error and keeps the buffer
Window_refresh(w, sent) ==
    IF sent = WriteOk
    THEN [window |-> [w EXCEPT !.buffer = <<>>], written |-> w.buffer, rc |-> "Ok"]
    ELSE [window |-> w, written |-> SubSeq(w.buffer, 1, sent), rc |-> "Err"]

\* the columns of the window and of the one-line terminal it is on
WinCols == 4

WinAttrs == {{"BOLD"}, {"UNDERLINE"}}
WinColors == {Reset, Red}
WinTexts == {<<"a">>, <<"a", "b">>}

\* the cells the window printed since w, each with the style the window had
PrintedBy(w, w1, text) ==
    [i \in 1..(w1.cursor_x - w.cursor_x) |->
        with_style(text[i], w.current_attr, w.current_fg, w.current_bg)]

\* a call on the Window left it as w1; hist holds the cells printed so far
WindowCall(op, w1, text) ==
    /\ ops < MaxCalls
    /\ ops' = ops + 1
    /\ window' = w1
    /\ last' = [op |-> op, emitted |-> SubSeq(w1.buffer, Len(window.buffer) + 1, Len(w1.buffer)),
                before |-> window]
    /\ hist' = hist \o PrintedBy(window, w1, text)
    /\ UNCHANGED <<screen, term, old_line, new_line, diff_result, hash_result, args, ret,
                    update_buffer, backend, tty, panel_stack, panels>>

CallWindowPrint == \E text \in WinTexts : WindowCall("print", Window_print(window, text), text)

CallWindowAddCh == \E ch \in {"a"} : WindowCall("addch", Window_addch(window, ch), <<ch>>)

CallWindowAttrOn ==
    \E attr \in WinAttrs : WindowCall("attron", Window_attron(window, attr), <<>>)

CallWindowAttrOff ==
    \E attr \in WinAttrs : WindowCall("attroff", Window_attroff(window, attr), <<>>)

CallWindowSetFg ==
    \E color \in WinColors : WindowCall("set_fg", Window_set_fg(window, color), <<>>)

CallWindowSetBg ==
    \E color \in WinColors : WindowCall("set_bg", Window_set_bg(window, color), <<>>)

\* refresh, with what the write does
CallWindowRefresh ==
    /\ ops < MaxCalls
    /\ ops' = ops + 1
    /\ \E sent \in {WriteOk, 0} :
         /\ sent < Len(window.buffer)
         /\ window' = Window_refresh(window, sent).window
         /\ term' = Receive(term, Window_refresh(window, sent).written)
         /\ last' = [op |-> "refresh", emitted |-> <<>>, before |-> window]
    /\ UNCHANGED <<screen, hist, old_line, new_line, diff_result, hash_result, args, ret,
                    update_buffer, backend, tty, panel_stack, panels>>

\* a window of one line at the origin of a blank one-line terminal whose
\* cursor is at the origin
InitWindow ==
    /\ screen = None
    /\ term = BlankTerm(1, WinCols)
    /\ last = [op |-> "none", emitted |-> <<>>, before |-> None]
    /\ hist = <<>>
    /\ ops = 0
    /\ old_line = <<>>
    /\ new_line = <<>>
    /\ diff_result = NotCalled
    /\ hash_result = NotCalled
    /\ args = NotCalled
    /\ ret = NotCalled
    /\ update_buffer = <<>>
    /\ backend = None
    /\ tty = Tty(TRUE)
    /\ panel_stack = None
    /\ panels = <<>>
    /\ window = Window_new(1, WinCols, 0, 0)

NextWindow ==
    \/ CallWindowPrint
    \/ CallWindowAddCh
    \/ CallWindowAttrOn
    \/ CallWindowAttrOff
    \/ CallWindowSetFg
    \/ CallWindowSetBg
    \/ CallWindowRefresh

SpecWindow == InitWindow /\ [][NextWindow]_vars

(***************************************************************************)
(* C39: a Window's characters are shown in the style they were printed in  *)
(***************************************************************************)
\* the terminal once it has applied every byte the window emitted
Shown == ApplyTokens(term, window.buffer)

\* C39: for any sequence of attron, attroff, set_fg, set_bg, print and addch
\* on a Window, a terminal that applies the bytes the window emits shows each
\* printed character with the attributes, foreground and background the
\* window had when it was printed.
C39_ShownAsPrinted ==
    \A k \in 1..Len(hist) : Shown.grid[1][k] = hist[k]

\* C39, second part: a print or addch on a window whose style is the one last
\* emitted emits no SGR sequence
C39_UnchangedStyleIsSilent ==
    (/\ last.op \in {"print", "addch"}
     /\ last.before.current_attr = last.before.last_emitted_attr
     /\ last.before.current_fg = last.before.last_emitted_fg
     /\ last.before.current_bg = last.before.last_emitted_bg) =>
        \A i \in 1..Len(last.emitted) : last.emitted[i].t # "SGR"

\* C39 for the windows that never had a colour other than the default
C39_WithoutColours ==
    (\A k \in 1..Len(hist) : hist[k].fg = Reset /\ hist[k].bg = Reset) =>
        \A k \in 1..Len(hist) : Shown.grid[1][k] = hist[k]

====
